---- MODULE Spec2Model ----
(***************************************************************************)
(* Model of the Amazon PPC optimization engine (elstraussoscode/           *)
(* Amazon-Agent): keyword classifier, keyword analysis, bid adjustment,    *)
(* placement adjuster and the LangGraph pipeline that sequences them.      *)
(*                                                                         *)
(* Numbers.  Every float of the program (ACOS, conversion rate, bids,      *)
(* targets, money) is the integer 100 x its value: the percentage 20.0 is  *)
(* 2000 and the fraction 0.20 is 20.  Click and order counts are plain     *)
(* integers.  float('nan') is the value NaN, which no comparison accepts.  *)
(* A quotient the program computes in floating point (the proportional     *)
(* bid factor target/acos, a revenue per click) is kept as the pair        *)
(* <<numerator, denominator>> and compared by cross multiplication.        *)
(***************************************************************************)
EXTENDS Integers, Sequences, FiniteSets, TLC

VARIABLES
    campaign_cols,        \* df_campaign.columns
    optimization_results, \* st.session_state.optimization_results
    export_sheet,         \* df_to_update of generate_export_excel
    ai_call,              \* how the call of the recommendation generator went
    kw_rows,              \* df_campaign rows with entitaet == 'keyword'
    df_place,             \* df_campaign rows with entitaet == 'gebotsanpassung'
    df_search_terms,      \* PPCState.df_search_terms
    client_config,        \* PPCState.client_config / st.session_state.client_config
    keyword_changes,      \* PPCState.keyword_changes
    bid_changes,          \* PPCState.bid_changes
    optimization_summary, \* PPCState.optimization_summary
    current_step,         \* PPCState.current_step
    debug_info,           \* PPCState.debug_info
    keyword_perf,         \* result of classify_keywords
    classify_args,        \* target_acos_decimal, min_conversion_rate_decimal of the last call
    bid_steps,            \* the iterations of the adjust_bids loop (its locals)
    placement_adjustments,\* result of compute_placement_adjustments
    pc                    \* which entry point has run

vars == <<campaign_cols, optimization_results, export_sheet, ai_call,
          kw_rows, df_place, df_search_terms, client_config, keyword_changes,
          bid_changes, optimization_summary, current_step, debug_info,
          keyword_perf, classify_args, bid_steps, placement_adjustments, pc>>

\* The columns compute_placement_adjustments requires of df_campaign.
required_cols ==
    {"kampagnen-id", "entität", "platzierung", "prozentsatz", "clicks", "spend", "sales"}

(***************************************************************************)
(* Values                                                                  *)
(***************************************************************************)
\* float('nan'): a missing numeric value.
NaN == -1

\* A key that client_config does not hold (or holds as None).
None == -2

isna(x) == x = NaN

\* IEEE comparisons: every comparison with NaN is False.
Gt(x, y) == ~isna(x) /\ ~isna(y) /\ x > y
Ge(x, y) == ~isna(x) /\ ~isna(y) /\ x >= y
Lt(x, y) == ~isna(x) /\ ~isna(y) /\ x < y
Le(x, y) == ~isna(x) /\ ~isna(y) /\ x <= y
Eq(x, y) == ~isna(x) /\ ~isna(y) /\ x = y

\* dict.get(key, default)
Get(cfg, key, default) == IF cfg[key] = None THEN default ELSE cfg[key]

\* x / 100 of app.py:155 and dashboard.py:204-205, on whole multiples of 100
\* (a percentage with no decimals becomes a fraction with two).
Div100(x) == x \div 100

Range(s) == {s[i] : i \in 1..Len(s)}

SeqsUpTo(S, n) == UNION {[1..k -> S] : k \in 1..n}

(***************************************************************************)
(* keyword_classifier.classify_keywords                                    *)
(***************************************************************************)
\* The click count of the classifier's "no conversions" rule.
ClassifierMinClicks == 25

\* The classifier's default min_conversion_rate, 0.10.
ClassifierDefaultMinCR == 10

Reason(kind, a, b) == [kind |-> kind, a |-> a, b |-> b]

\* Faulty variant of no_sales: the first rule also asks for no orders.
no_sales_no_orders(row) == Eq(row.sales, 0) /\ Eq(row.orders, 0)

\* The first rule: sales == 0.
no_sales(row) == Eq(row.sales, 0)

\* The status and reason of one keyword row (the if/elif chain of the loop).
ClassifyRow(row, target_acos, min_conversion_rate) ==
    LET acos_high == ~isna(row.acos) /\ row.acos > target_acos
        cr_low    == ~isna(row.conversion_rate)
                     /\ row.conversion_rate < min_conversion_rate
        acos_ok   == ~isna(row.acos) /\ row.acos <= target_acos
        cr_ok     == ~isna(row.conversion_rate)
                     /\ row.conversion_rate >= min_conversion_rate
    IN  IF no_sales(row)
          THEN [status |-> "schlecht", reason |-> Reason("Keine Verkaeufe", 0, 0)]
        ELSE IF Ge(row.clicks, ClassifierMinClicks) /\ Eq(row.orders, 0)
          THEN [status |-> "schlecht",
                reason |-> Reason("Keine Conversions nach Klicks", row.clicks, 0)]
        ELSE IF acos_high \/ cr_low
          THEN [status |-> "schlecht",
                reason |-> IF acos_high /\ cr_low
                             THEN Reason("Hoher ACOS und niedrige CR",
                                         row.acos, row.conversion_rate)
                           ELSE IF acos_high
                             THEN Reason("ACOS ueber Ziel", row.acos, 0)
                           ELSE Reason("Niedrige Conversion Rate",
                                       row.conversion_rate, 0)]
        ELSE IF acos_ok /\ cr_ok
          THEN [status |-> "gut",
                reason |-> Reason("ACOS <= Ziel und gute CR",
                                  row.acos, row.conversion_rate)]
        ELSE [status |-> "schlecht", reason |-> Reason("ACOS ueber Ziel", row.acos, 0)]

\* The record appended for one row.
ClassifyRecord(row, target_acos, min_conversion_rate) ==
    LET c == ClassifyRow(row, target_acos, min_conversion_rate)
    IN  [campaign_id     |-> row.campaign_id,
         keyword         |-> row.keyword,
         clicks          |-> row.clicks,
         sales           |-> row.sales,
         spend           |-> row.spend,
         orders          |-> row.orders,
         acos            |-> IF isna(row.acos) THEN 0 ELSE row.acos,
         conversion_rate |-> row.conversion_rate,
         status          |-> c.status,
         reason          |-> c.reason]

\* classify_keywords(df_campaign, target_acos, min_conversion_rate): one
\* record per keyword row, in row order; [] when there is no keyword row.
classify_keywords(rows, target_acos, min_conversion_rate) ==
    [i \in 1..Len(rows) |-> ClassifyRecord(rows[i], target_acos, min_conversion_rate)]

(***************************************************************************)
(* optimizer.analyze_keywords                                              *)
(***************************************************************************)
DefaultTargetAcos == 2000

MarketLeaderTargetAcos == 800

LargeInventoryTargetAcos == 800

DefaultKeywordsMinClicks == 25

DefaultMinConversionRate == 1000

\* Faulty variant of analyze_target_acos: the flags are applied after the
\* explicit target and override it.
analyze_target_acos_flags_last(cfg) ==
    LET t0 == IF cfg.target_acos # None THEN cfg.target_acos ELSE DefaultTargetAcos
        t1 == IF cfg.is_market_leader THEN MarketLeaderTargetAcos ELSE t0
    IN  IF cfg.has_large_inventory THEN LargeInventoryTargetAcos ELSE t1

\* target_acos of analyze_keywords: the default, lowered by either flag,
\* overridden by an explicit non-null target.
analyze_target_acos(cfg) ==
    LET t0 == DefaultTargetAcos
        t1 == IF cfg.is_market_leader THEN MarketLeaderTargetAcos ELSE t0
        t2 == IF cfg.has_large_inventory THEN LargeInventoryTargetAcos ELSE t1
    IN  IF cfg.target_acos # None THEN cfg.target_acos ELSE t2

original_data(row) ==
    [clicks |-> row.clicks, orders |-> row.orders, acos |-> row.acos,
     conversion_rate |-> row.conversion_rate]

Decision(row, action, reason) ==
    [keyword |-> row.keyword, action |-> action, reason |-> reason,
     original_data |-> original_data(row)]

\* any(change['keyword'] == keyword for change in keyword_changes)
AlreadyFlagged(changes, keyword) ==
    \E i \in 1..Len(changes) : changes[i].keyword = keyword

\* Faulty variant of mask_no_conversion: the click count is fixed at 25, the
\* configured threshold ignored.
mask_no_conversion_fixed(row, clicks_threshold) ==
    Ge(row.clicks, 25) /\ Eq(row.orders, 0)

\* Rule 1 mask: clicks >= clicks_threshold and orders == 0.
mask_no_conversion(row, clicks_threshold) ==
    Ge(row.clicks, clicks_threshold) /\ Eq(row.orders, 0)

\* Faulty variant of mask_high_acos_low_cr: both comparisons include the boundary.
mask_high_acos_low_cr_inclusive(row, target_acos, min_conversion_rate) ==
    /\ ~isna(row.acos)
    /\ Ge(row.acos, target_acos)
    /\ (isna(row.conversion_rate) \/ Le(row.conversion_rate, min_conversion_rate))

\* Rule 2 mask: ACOS known and above target, conversion rate missing or low.
mask_high_acos_low_cr(row, target_acos, min_conversion_rate) ==
    /\ ~isna(row.acos)
    /\ Gt(row.acos, target_acos)
    /\ (isna(row.conversion_rate) \/ Lt(row.conversion_rate, min_conversion_rate))

\* Rule 3 mask: ACOS missing or within target, or conversion rate good.
mask_keep(row, target_acos, min_conversion_rate) ==
    \/ isna(row.acos)
    \/ Le(row.acos, target_acos)
    \/ (~isna(row.conversion_rate) /\ Ge(row.conversion_rate, min_conversion_rate))

\* Rule 1 appends a pause decision for every row of its mask; it never skips a
\* keyword that is already flagged.
RECURSIVE Rule1(_, _, _, _)
Rule1(rows, i, clicks_threshold, changes) ==
    IF i > Len(rows) THEN changes
    ELSE IF mask_no_conversion(rows[i], clicks_threshold)
      THEN Rule1(rows, i + 1, clicks_threshold,
                 Append(changes,
                        Decision(rows[i], "pause",
                                 Reason("No conversions after clicks",
                                        rows[i].clicks, 0))))
    ELSE Rule1(rows, i + 1, clicks_threshold, changes)

RECURSIVE Rule2(_, _, _, _, _)
Rule2(rows, i, target_acos, min_conversion_rate, changes) ==
    IF i > Len(rows) THEN changes
    ELSE IF mask_high_acos_low_cr(rows[i], target_acos, min_conversion_rate)
            /\ ~AlreadyFlagged(changes, rows[i].keyword)
      THEN Rule2(rows, i + 1, target_acos, min_conversion_rate,
                 Append(changes,
                        Decision(rows[i], "pause",
                                 Reason("High ACOS and low conversion rate",
                                        rows[i].acos, rows[i].conversion_rate))))
    ELSE Rule2(rows, i + 1, target_acos, min_conversion_rate, changes)

\* Faulty variant of Rule3: a keyword that already has a decision is not
\* skipped.
RECURSIVE Rule3_no_skip(_, _, _, _, _)
Rule3_no_skip(rows, i, target_acos, min_conversion_rate, changes) ==
    IF i > Len(rows) THEN changes
    ELSE IF mask_keep(rows[i], target_acos, min_conversion_rate)
      THEN Rule3_no_skip(rows, i + 1, target_acos, min_conversion_rate,
                         Append(changes,
                                Decision(rows[i], "keep",
                                         Reason("Good performance",
                                                rows[i].acos,
                                                rows[i].conversion_rate))))
    ELSE Rule3_no_skip(rows, i + 1, target_acos, min_conversion_rate, changes)

RECURSIVE Rule3(_, _, _, _, _)
Rule3(rows, i, target_acos, min_conversion_rate, changes) ==
    IF i > Len(rows) THEN changes
    ELSE IF mask_keep(rows[i], target_acos, min_conversion_rate)
            /\ ~AlreadyFlagged(changes, rows[i].keyword)
      THEN Rule3(rows, i + 1, target_acos, min_conversion_rate,
                 Append(changes,
                        Decision(rows[i], "keep",
                                 Reason("Good performance",
                                        rows[i].acos, rows[i].conversion_rate))))
    ELSE Rule3(rows, i + 1, target_acos, min_conversion_rate, changes)

\* The keyword_changes list analyze_keywords builds.
analyze_keywords(rows, cfg) ==
    LET target_acos         == analyze_target_acos(cfg)
        clicks_threshold    == Get(cfg, "keywords_min_clicks", DefaultKeywordsMinClicks)
        min_conversion_rate == Get(cfg, "min_conversion_rate", DefaultMinConversionRate)
        r1 == Rule1(rows, 1, clicks_threshold, <<>>)
        r2 == Rule2(rows, 1, target_acos, min_conversion_rate, r1)
    IN  Rule3(rows, 1, target_acos, min_conversion_rate, r2)

(***************************************************************************)
(* optimizer.adjust_bids                                                   *)
(***************************************************************************)
\* The least click count is exclusive: clicks > 10.
BidMinClicks == 10

AdjustDefaultTargetAcos == 2000

AdjustMarketLeaderTargetAcos == 800

AdjustLargeInventoryTargetAcos == 800

\* target_acos of adjust_bids (its own copy of the computation).
adjust_target_acos(cfg) ==
    LET t0 == AdjustDefaultTargetAcos
        t1 == IF cfg.is_market_leader THEN AdjustMarketLeaderTargetAcos ELSE t0
        t2 == IF cfg.has_large_inventory THEN AdjustLargeInventoryTargetAcos ELSE t1
    IN  IF cfg.target_acos # None THEN cfg.target_acos ELSE t2

mask_enough_data(row) == Gt(row.clicks, BidMinClicks)

\* Faulty variant of WillBePaused: only the first decision of the list is looked at.
WillBePaused_first_only(changes, keyword) ==
    /\ Len(changes) > 0
    /\ changes[1].keyword = keyword
    /\ changes[1].action = "pause"

\* any(change['keyword'] == keyword and change['action'] == 'pause' ...)
WillBePaused(changes, keyword) ==
    \E i \in 1..Len(changes) :
        changes[i].keyword = keyword /\ changes[i].action = "pause"

\* row[col] if not pd.isna(row[col]) else 0
OrZero(x) == IF isna(x) THEN 0 ELSE x

\* Faulty variant of adjustment_factor: the large reduction is 0.7 instead of 0.6.
adjustment_factor_weak_cut(current_acos, target_acos, orders) ==
    IF current_acos = 0 /\ Gt(orders, 0) THEN <<11, 10>>
    ELSE IF current_acos = 0 /\ Eq(orders, 0) THEN <<7, 10>>
    ELSE IF 2 * current_acos > 3 * target_acos THEN <<7, 10>>
    ELSE IF current_acos > target_acos THEN <<target_acos, current_acos>>
    ELSE IF 2 * current_acos < target_acos /\ Gt(orders, 0) THEN <<13, 10>>
    ELSE IF current_acos < target_acos /\ Gt(orders, 0) THEN <<11, 10>>
    ELSE <<10, 10>>

\* A factor is the fraction <<n, d>>, d > 0: 1.1 is <<11, 10>> and the
\* proportional reduction is <<target_acos, current_acos>>.
adjustment_factor(current_acos, target_acos, orders) ==
    IF current_acos = 0 /\ Gt(orders, 0) THEN <<11, 10>>
    ELSE IF current_acos = 0 /\ Eq(orders, 0) THEN <<7, 10>>
    ELSE IF 2 * current_acos > 3 * target_acos THEN <<6, 10>>
    ELSE IF current_acos > target_acos THEN <<target_acos, current_acos>>
    ELSE IF 2 * current_acos < target_acos /\ Gt(orders, 0) THEN <<13, 10>>
    ELSE IF current_acos < target_acos /\ Gt(orders, 0) THEN <<11, 10>>
    ELSE <<10, 10>>

Abs(x) == IF x < 0 THEN -x ELSE x

\* Faulty variant of significant_change: every iteration appends its change.
significant_change_always(f) == TRUE

\* abs(adjustment_factor - 1.0) > 0.05 as the float comparison decides it.
\* The only factor at distance exactly 0.05 is the quotient 0.95: the double
\* nearest 0.95 lies below it, 1.0 minus it is 0.050000000000000044, and the
\* comparison with the double 0.05 is True.  Every other factor is decided
\* as in exact arithmetic.
significant_change(f) ==
    \/ 20 * Abs(f[1] - f[2]) > f[2]
    \/ (f[1] < f[2] /\ 20 * (f[2] - f[1]) = f[2])

get_bid_change_reason(current_acos, target_acos, orders, clicks) ==
    IF current_acos = 0 /\ Eq(orders, 0)
      THEN Reason("No conversions after clicks", clicks, 0)
    ELSE IF 2 * current_acos > 3 * target_acos
      THEN Reason("ACOS is much higher than target", current_acos, target_acos)
    ELSE IF current_acos > target_acos
      THEN Reason("ACOS is higher than target", current_acos, target_acos)
    ELSE IF 2 * current_acos < target_acos /\ Gt(orders, 0)
      THEN Reason("ACOS is much lower than target", current_acos, target_acos)
    ELSE IF current_acos < target_acos /\ Gt(orders, 0)
      THEN Reason("ACOS is below target", current_acos, target_acos)
    ELSE Reason("Current performance is acceptable", 0, 0)

\* The BidChange of one row: new_bid and change_percentage are fractions.
BidChange(row, target_acos) ==
    LET current_acos == OrZero(row.acos)
        current_cpc  == OrZero(row.cpc)
        f            == adjustment_factor(current_acos, target_acos, row.orders)
    IN  [keyword           |-> row.keyword,
         current_bid       |-> current_cpc,
         new_bid           |-> <<current_cpc * f[1], f[2]>>,
         change_percentage |-> <<(f[1] - f[2]) * 100, f[2]>>,
         reason            |-> get_bid_change_reason(current_acos, target_acos,
                                                     row.orders, row.clicks),
         original_data     |-> original_data(row)]

\* The rows the loop reaches the factor computation for.
BidEligible(row, changes) ==
    mask_enough_data(row) /\ ~WillBePaused(changes, row.keyword)

\* One iteration of the loop that reaches the factor computation: the row's
\* index, the loop's locals, and the BidChange it appends when the change is
\* significant.
BidStep(rows, i, target_acos) ==
    LET row          == rows[i]
        current_acos == OrZero(row.acos)
        current_cpc  == OrZero(row.cpc)
        f            == adjustment_factor(current_acos, target_acos, row.orders)
    IN  [row               |-> i,
         current_acos      |-> current_acos,
         current_cpc       |-> current_cpc,
         target_acos       |-> target_acos,
         adjustment_factor |-> f,
         new_bid           |-> <<current_cpc * f[1], f[2]>>,
         appended          |-> significant_change(f),
         change            |-> BidChange(row, target_acos)]

RECURSIVE BidLoop(_, _, _, _, _)
BidLoop(rows, i, target_acos, changes, steps) ==
    IF i > Len(rows) THEN steps
    ELSE IF BidEligible(rows[i], changes)
      THEN BidLoop(rows, i + 1, target_acos, changes,
                   Append(steps, BidStep(rows, i, target_acos)))
    ELSE BidLoop(rows, i + 1, target_acos, changes, steps)

\* The iterations of adjust_bids over the rows, given keyword_changes.
adjust_bids(rows, cfg, changes) ==
    BidLoop(rows, 1, adjust_target_acos(cfg), changes, <<>>)

IsAppended(step) == step.appended

\* bid_changes: the BidChange of every iteration that appended one, in order.
AppendedChanges(steps) ==
    LET kept == SelectSeq(steps, IsAppended)
    IN  [k \in 1..Len(kept) |-> kept[k].change]

(***************************************************************************)
(* Inputs                                                                  *)
(***************************************************************************)
\* The most rows a keyword sheet holds.
MaxRows == 2

Config(leader, inventory, target, min_clicks, min_cr) ==
    [is_market_leader    |-> leader,
     has_large_inventory |-> inventory,
     target_acos         |-> target,
     keywords_min_clicks |-> min_clicks,
     min_conversion_rate |-> min_cr]

\* Search-term rows for the keyword rules: below, between and above the click
\* thresholds, with and without orders; ACOS at the target, above it and
\* missing; conversion rate at the minimum, below it and missing.
KwRowDomain ==
    {[keyword |-> k, clicks |-> co[1], orders |-> co[2],
      sales |-> IF co[2] = 0 THEN 0 ELSE 10000, spend |-> 2000,
      acos |-> ac[1], conversion_rate |-> ac[2], cpc |-> 100] :
        k \in {"k1", "k2"},
        co \in {<<10, 2>>, <<15, 0>>, <<30, 0>>, <<30, 2>>},
        ac \in {<<2000, 1000>>, <<3500, 500>>, <<3500, NaN>>,
                <<3500, 1000>>, <<NaN, 500>>}}

KwConfigDomain ==
    {Config(FALSE, FALSE, None, c, None) : c \in {None, 12}}

\* Search-term rows for the bid table: 15 clicks (enough data, under every
\* pause threshold), a good conversion rate, and an ACOS in every branch of
\* the table for the target 19 %: missing (no sales), 0 (no spend), under
\* half the target, between half and the target, the target, just above it
\* (factors 0.974, 0.95 and 0.905), 1.5 x the target and beyond.  ACOS is
\* spend / sales x 100 as the report loader derives it: with sales of 100.00
\* the scaled ACOS equals the scaled spend.
BidRowDomain ==
    {[keyword |-> k, clicks |-> 15, orders |-> o,
      sales |-> IF a = NaN THEN 0 ELSE 10000,
      spend |-> IF a = NaN THEN 1000 ELSE a,
      acos |-> a, conversion_rate |-> 1000, cpc |-> 100] :
        k \in {"k1", "k2"}, o \in {0, 2},
        a \in {NaN, 0, 900, 1000, 1900, 1950, 2000, 2100, 2850, 3500}}

BidConfigDomain == {Config(FALSE, FALSE, 1900, None, None)}

(***************************************************************************)
(* optimizer.generate_optimization_summary and the impact estimators       *)
(*                                                                         *)
(* The estimates are exact fractions <<n, d>> (d > 0, lowest terms) in the *)
(* program's own units: ACOS in percent, money in currency units.          *)
(***************************************************************************)
RECURSIVE Gcd(_, _)
Gcd(a, b) == IF b = 0 THEN a ELSE Gcd(b, a % b)

\* The quotient n / d, d > 0.
Frac(n, d) ==
    LET g == Gcd(Abs(n), d)
    IN  <<n \div g, d \div g>>

FracAdd(f, g) == Frac(f[1] * g[2] + g[1] * f[2], f[2] * g[2])

FracSub(f, g) == Frac(f[1] * g[2] - g[1] * f[2], f[2] * g[2])

FracMul(f, g) == Frac(f[1] * g[1], f[2] * g[2])

\* Series.sum() of a column over the rows with index in S, in hundredths;
\* missing values are skipped.
RECURSIVE SetSum(_, _, _)
SetSum(rows, col, S) ==
    IF S = {} THEN 0
    ELSE LET i == CHOOSE j \in S : TRUE
         IN  OrZero(rows[i][col]) + SetSum(rows, col, S \ {i})

\* [k['keyword'] for k in keyword_changes if k['action'] == 'pause']
keywords_to_pause_identifiers(changes) ==
    {changes[i].keyword : i \in {j \in 1..Len(changes) : changes[j].action = "pause"}}

\* df_search_terms[df_search_terms['keyword'].isin(identifiers)]
RowsOf(rows, identifiers) ==
    {i \in 1..Len(rows) : rows[i].keyword \in identifiers}

\* keyword_spend of one bid change: the spend of every row of its keyword.
keyword_spend(rows, keyword) == Frac(SetSum(rows, "spend", RowsOf(rows, {keyword})), 100)

\* change['change_percentage'] / 100
change_pct(change) == Frac(change.change_percentage[1], change.change_percentage[2] * 100)

\* bid_change_impact of estimate_acos_impact: one term per bid change.
RECURSIVE bid_change_impact(_, _)
bid_change_impact(rows, changes) ==
    IF changes = <<>> THEN <<0, 1>>
    ELSE FracAdd(FracMul(keyword_spend(rows, Head(changes).keyword),
                         change_pct(Head(changes))),
                 bid_change_impact(rows, Tail(changes)))

\* The locals of estimate_acos_impact.
AcosImpactLocals(rows, kchanges, bchanges) ==
    LET all    == 1..Len(rows)
        paused == RowsOf(rows, keywords_to_pause_identifiers(kchanges))
        current_spend == Frac(SetSum(rows, "spend", all), 100)
        current_sales == Frac(SetSum(rows, "sales", all), 100)
        paused_spend  == Frac(SetSum(rows, "spend", paused), 100)
        paused_sales  == Frac(SetSum(rows, "sales", paused), 100)
    IN  [current_spend |-> current_spend,
         current_sales |-> current_sales,
         new_spend |-> FracAdd(FracSub(current_spend, paused_spend),
                               bid_change_impact(rows, bchanges)),
         new_sales |-> FracSub(current_sales, paused_sales)]

\* spend / sales * 100 for sales > 0, both fractions.
AcosCalc(spend, sales) == Frac(spend[1] * sales[2] * 100, spend[2] * sales[1])

\* Faulty variant of estimate_acos_impact: a negative recomputed spend is not
\* clamped.
estimate_acos_impact_unclamped(rows, kchanges, bchanges) ==
    LET l == AcosImpactLocals(rows, kchanges, bchanges)
    IN  IF l.new_sales[1] = 0 \/ l.current_sales[1] = 0 THEN <<0, 1>>
        ELSE FracSub(AcosCalc(l.current_spend, l.current_sales),
                     AcosCalc(l.new_spend, l.new_sales))

estimate_acos_impact(rows, kchanges, bchanges) ==
    LET l == AcosImpactLocals(rows, kchanges, bchanges)
    IN  IF l.new_sales[1] = 0 \/ l.current_sales[1] = 0 \/ l.new_spend[1] < 0
          THEN <<0, 1>>
        ELSE FracSub(IF l.current_sales[1] > 0
                       THEN AcosCalc(l.current_spend, l.current_sales) ELSE <<0, 1>>,
                     IF l.new_sales[1] > 0
                       THEN AcosCalc(l.new_spend, l.new_sales) ELSE <<0, 1>>)

\* bid_change_impact_savings of estimate_cost_savings: one term per bid change
\* with a negative change_percentage.
RECURSIVE bid_change_impact_savings(_, _)
bid_change_impact_savings(rows, changes) ==
    IF changes = <<>> THEN <<0, 1>>
    ELSE LET change == Head(changes)
             rest   == bid_change_impact_savings(rows, Tail(changes))
         IN  IF change.change_percentage[1] < 0
               THEN FracAdd(FracMul(keyword_spend(rows, change.keyword),
                                    Frac(Abs(change_pct(change)[1]),
                                         change_pct(change)[2])),
                            rest)
             ELSE rest

estimate_cost_savings(rows, kchanges, bchanges) ==
    FracAdd(Frac(SetSum(rows, "spend",
                        RowsOf(rows, keywords_to_pause_identifiers(kchanges))), 100),
            bid_change_impact_savings(rows, bchanges))

\* df_search_terms['acos'][np.isfinite(df_search_terms['acos'])]
valid_acos(rows) == {i \in 1..Len(rows) : ~isna(rows[i].acos)}

\* valid_acos.mean() if not valid_acos.empty else 0, in percent.
current_avg_acos(rows) ==
    IF valid_acos(rows) = {} THEN <<0, 1>>
    ELSE Frac(SetSum(rows, "acos", valid_acos(rows)), 100 * Cardinality(valid_acos(rows)))

\* Faulty variant of estimate_efficiency_improvement: an average ACOS of 0
\* always gives 0.
estimate_efficiency_improvement_flat(rows, kchanges, bchanges) ==
    LET avg == current_avg_acos(rows)
        acos_reduction == estimate_acos_impact(rows, kchanges, bchanges)
    IN  IF valid_acos(rows) = {} THEN <<0, 1>>
        ELSE IF avg[1] = 0 THEN <<0, 1>>
        ELSE Frac(acos_reduction[1] * avg[2] * 100, acos_reduction[2] * avg[1])

estimate_efficiency_improvement(rows, kchanges, bchanges) ==
    LET avg == current_avg_acos(rows)
        acos_reduction == estimate_acos_impact(rows, kchanges, bchanges)
    IN  IF valid_acos(rows) = {} THEN <<0, 1>>
        ELSE IF avg[1] = 0
          THEN (IF acos_reduction[1] > 0 THEN <<100, 1>> ELSE <<0, 1>>)
        ELSE Frac(acos_reduction[1] * avg[2] * 100, acos_reduction[2] * avg[1])

\* The ways a call of generate_ai_recommendations can go: no OPENAI_API_KEY,
\* an exception inside the try block, or an answer of the model.
AiCalls == {"no_api_key", "exception", "answered"}

\* Faulty variant of generate_ai_recommendations: an exception leaves no
\* list.
generate_ai_recommendations_raising(rows, call) ==
    CASE call = "no_api_key" ->
            <<"OpenAI API key not configured. AI recommendations unavailable.">>
      [] call = "exception" -> <<>>
      [] OTHER ->
            IF rows = <<>>
              THEN <<"Insufficient data for AI recommendations (missing keywords or search terms data).">>
            ELSE <<"response.content">>

generate_ai_recommendations(rows, call) ==
    CASE call = "no_api_key" ->
            <<"OpenAI API key not configured. AI recommendations unavailable.">>
      [] call = "exception" ->
            <<"An error occurred while generating AI recommendations.",
              "Please check the application logs for more details.",
              "Default advice: Review keywords with high ACOS and low conversions for potential pausing or bid reduction.",
              "Monitor keywords with recent bid changes closely for performance shifts.">>
      [] OTHER ->
            IF rows = <<>>
              THEN <<"Insufficient data for AI recommendations (missing keywords or search terms data).">>
            ELSE <<"response.content">>

\* The indices of a list whose element satisfies a test on change_percentage
\* or action.
bids_to_increase(changes) == {i \in 1..Len(changes) : changes[i].change_percentage[1] > 0}

bids_to_decrease(changes) == {i \in 1..Len(changes) : changes[i].change_percentage[1] < 0}

keywords_to_pause(changes) == {i \in 1..Len(changes) : changes[i].action = "pause"}

keywords_to_keep(changes) == {i \in 1..Len(changes) : changes[i].action = "keep"}

\* np.mean of the change_percentage of the changes with index in S, 0 for
\* no such change.
RECURSIVE PctSum(_, _)
PctSum(changes, S) ==
    IF S = {} THEN <<0, 1>>
    ELSE LET i == CHOOSE j \in S : TRUE
         IN  FracAdd(Frac(changes[i].change_percentage[1],
                          changes[i].change_percentage[2]),
                     PctSum(changes, S \ {i}))

avg_bid_change(changes, S) ==
    IF S = {} THEN <<0, 1>>
    ELSE FracMul(PctSum(changes, S), <<1, Cardinality(S)>>)

\* np.mean of the known ACOS of the paused decisions: 0 without paused
\* decisions, nan when none of them has an ACOS.
avg_pause_acos(changes) ==
    LET paused == keywords_to_pause(changes)
        known  == {i \in paused : ~isna(changes[i].original_data.acos)}
        acos   == [i \in 1..Len(changes) |-> changes[i].original_data]
    IN  IF paused = {} THEN <<0, 1>>
        ELSE IF known = {} THEN NaN
        ELSE Frac(SetSum(acos, "acos", known), 100 * Cardinality(known))

generate_optimization_summary(rows, kchanges, bchanges, call) ==
    [total_keywords_analyzed |-> Len(rows),
     keywords_to_pause       |-> Cardinality(keywords_to_pause(kchanges)),
     keywords_to_keep        |-> Cardinality(keywords_to_keep(kchanges)),
     bids_to_adjust          |-> Len(bchanges),
     bids_to_increase        |-> Cardinality(bids_to_increase(bchanges)),
     bids_to_decrease        |-> Cardinality(bids_to_decrease(bchanges)),
     avg_pause_acos          |-> avg_pause_acos(kchanges),
     avg_bid_increase        |-> avg_bid_change(bchanges, bids_to_increase(bchanges)),
     avg_bid_decrease        |-> avg_bid_change(bchanges, bids_to_decrease(bchanges)),
     estimated_impact        |->
         [projected_acos_reduction |-> estimate_acos_impact(rows, kchanges, bchanges),
          cost_saving              |-> estimate_cost_savings(rows, kchanges, bchanges),
          efficiency_improvement   |->
              estimate_efficiency_improvement(rows, kchanges, bchanges)],
     general_recommendations |-> generate_ai_recommendations(rows, call)]

(***************************************************************************)
(* The pipeline: create_optimization_workflow / apply_optimization_rules   *)
(***************************************************************************)
\* Faulty variant of InitPipeline: the entry point is adjust_bids.
InitPipeline_entry_adjust_bids(rows, cfg) ==
    /\ df_search_terms = rows
    /\ client_config = cfg
    /\ keyword_changes = <<>>
    /\ bid_changes = <<>>
    /\ optimization_summary = <<>>
    /\ current_step = "start"
    /\ debug_info = <<>>
    /\ bid_steps = <<>>
    /\ kw_rows = <<>>
    /\ df_place = <<>>
    /\ keyword_perf = <<>>
    /\ classify_args = <<>>
    /\ placement_adjustments = <<>>
    /\ optimization_results = <<>>
    /\ export_sheet = <<>>
    /\ campaign_cols = required_cols
    /\ ai_call = "not_called"
    /\ pc = "adjust_bids"

\* initial_state of apply_optimization_rules; the workflow stands at its
\* entry point.
InitPipeline(rows, cfg) ==
    /\ df_search_terms = rows
    /\ client_config = cfg
    /\ keyword_changes = <<>>
    /\ bid_changes = <<>>
    /\ optimization_summary = <<>>
    /\ current_step = "start"
    /\ debug_info = <<>>
    /\ bid_steps = <<>>
    /\ kw_rows = <<>>
    /\ df_place = <<>>
    /\ keyword_perf = <<>>
    /\ classify_args = <<>>
    /\ placement_adjustments = <<>>
    /\ optimization_results = <<>>
    /\ export_sheet = <<>>
    /\ campaign_cols = required_cols
    /\ ai_call = "not_called"
    /\ pc = "analyze_keywords"

\* Faulty variant of AnalyzeKeywords: the node works on the state's frame
\* itself, not on a copy, and fills its missing ACOS cells with 0.
AnalyzeKeywords_in_place ==
    /\ pc = "analyze_keywords"
    /\ keyword_changes' = analyze_keywords(df_search_terms, client_config)
    /\ df_search_terms' = [i \in 1..Len(df_search_terms) |->
                              [df_search_terms[i] EXCEPT !.acos = OrZero(@)]]
    /\ current_step' = "analyze_bids"
    /\ debug_info' = Append(debug_info,
                            Reason("Processed keyword changes",
                                   Len(keyword_changes'), 0))
    /\ pc' = "adjust_bids"
    /\ UNCHANGED <<campaign_cols, optimization_results, export_sheet, ai_call,
                   kw_rows, df_place, client_config, bid_changes,
                   optimization_summary, keyword_perf, classify_args, bid_steps,
                   placement_adjustments>>

\* Node analyze_keywords.
AnalyzeKeywords ==
    /\ pc = "analyze_keywords"
    /\ keyword_changes' = analyze_keywords(df_search_terms, client_config)
    /\ current_step' = "analyze_bids"
    /\ debug_info' = Append(debug_info,
                            Reason("Processed keyword changes",
                                   Len(keyword_changes'), 0))
    /\ pc' = "adjust_bids"
    /\ UNCHANGED <<campaign_cols, optimization_results, export_sheet, ai_call,
                   kw_rows, df_place, df_search_terms, client_config, bid_changes,
                   optimization_summary, keyword_perf, classify_args, bid_steps,
                   placement_adjustments>>

\* Node adjust_bids.
AdjustBids ==
    /\ pc = "adjust_bids"
    /\ bid_steps' = adjust_bids(df_search_terms, client_config, keyword_changes)
    /\ bid_changes' = AppendedChanges(bid_steps')
    /\ current_step' = "generate_summary"
    /\ debug_info' = Append(debug_info,
                            Reason("Processed bid changes", Len(bid_changes'), 0))
    /\ pc' = "generate_summary"
    /\ UNCHANGED <<campaign_cols, optimization_results, export_sheet, ai_call,
                   kw_rows, df_place, df_search_terms, client_config,
                   keyword_changes, optimization_summary, keyword_perf,
                   classify_args, placement_adjustments>>

\* Faulty variant of GenerateSummary: the stage reverses the state's
\* bid_changes list in place while it collects the changes for the summary.
GenerateSummary_reordering_bids ==
    /\ pc = "generate_summary"
    /\ \E call \in AiCalls :
        /\ ai_call' = call
        /\ optimization_summary' =
               generate_optimization_summary(df_search_terms, keyword_changes,
                                             bid_changes, call)
    /\ bid_changes' = [b \in 1..Len(bid_changes) |->
                          bid_changes[Len(bid_changes) + 1 - b]]
    /\ current_step' = "complete"
    /\ debug_info' = Append(debug_info, Reason("Optimization summary generated", 0, 0))
    /\ pc' = "optimized_rules"
    /\ UNCHANGED <<campaign_cols, optimization_results, export_sheet, kw_rows, df_place,
                   df_search_terms, client_config, keyword_changes,
                   keyword_perf, classify_args, bid_steps, placement_adjustments>>

\* Node generate_summary; apply_optimization_rules then returns the lists.
GenerateSummary ==
    /\ pc = "generate_summary"
    /\ \E call \in AiCalls :
        /\ ai_call' = call
        /\ optimization_summary' =
               generate_optimization_summary(df_search_terms, keyword_changes,
                                             bid_changes, call)
    /\ current_step' = "complete"
    /\ debug_info' = Append(debug_info, Reason("Optimization summary generated", 0, 0))
    /\ pc' = "optimized_rules"
    /\ UNCHANGED <<campaign_cols, optimization_results, export_sheet, kw_rows, df_place,
                   df_search_terms, client_config, keyword_changes, bid_changes,
                   keyword_perf, classify_args, bid_steps, placement_adjustments>>

NextPipeline == AnalyzeKeywords \/ AdjustBids \/ GenerateSummary

\* The state apply_optimization_rules returns in on a snapshot without
\* search-term rows, no API key being configured.
AfterPipelineWithoutRows ==
    /\ df_search_terms = <<>>
    /\ keyword_changes = <<>>
    /\ bid_changes = <<>>
    /\ bid_steps = <<>>
    /\ ai_call = "no_api_key"
    /\ optimization_summary =
           generate_optimization_summary(<<>>, <<>>, <<>>, "no_api_key")
    /\ current_step = "complete"
    /\ debug_info = <<Reason("Processed keyword changes", 0, 0),
                      Reason("Processed bid changes", 0, 0),
                      Reason("Optimization summary generated", 0, 0)>>

InitKeywords ==
    \E rows \in SeqsUpTo(KwRowDomain, MaxRows), cfg \in KwConfigDomain :
        InitPipeline(rows, cfg)

SpecKeywords == InitKeywords /\ [][NextPipeline]_vars

InitBids ==
    \E rows \in SeqsUpTo(BidRowDomain, MaxRows), cfg \in BidConfigDomain :
        InitPipeline(rows, cfg)

SpecBids == InitBids /\ [][NextPipeline]_vars

(***************************************************************************)
(* Properties of the keyword and bid stages                                *)
(***************************************************************************)
Analyzed == pc \in {"adjust_bids", "generate_summary", "optimized_rules"}

BidsAdjusted == pc \in {"generate_summary", "optimized_rules"}

Rows == 1..Len(df_search_terms)

Keywords == {df_search_terms[i].keyword : i \in Rows}

HasDecision(keyword, action) ==
    \E d \in 1..Len(keyword_changes) :
        keyword_changes[d].keyword = keyword /\ keyword_changes[d].action = action

\* keywords_min_clicks as configured, 25 when the configuration has none.
ConfiguredMinClicks ==
    IF client_config.keywords_min_clicks = None THEN 25
    ELSE client_config.keywords_min_clicks

\* min_conversion_rate as configured, 10 % when the configuration has none.
ConfiguredMinCR ==
    IF client_config.min_conversion_rate = None THEN 1000
    ELSE client_config.min_conversion_rate

\* The target ACOS in force: explicit, else 8 % under either flag, else 20 %.
ConfiguredTarget ==
    IF client_config.target_acos # None THEN client_config.target_acos
    ELSE IF client_config.is_market_leader \/ client_config.has_large_inventory
      THEN 800
    ELSE 2000

NoConversionRow(i) ==
    /\ df_search_terms[i].clicks # NaN
    /\ df_search_terms[i].clicks >= ConfiguredMinClicks
    /\ df_search_terms[i].orders = 0

\* C4: after analyze_keywords, every row with clicks >= keywords_min_clicks
\* and orders == 0 has a 'pause' decision for its keyword whose reason states
\* that row's click count, whatever the row's ACOS, conversion rate and sales.
C4_PauseStatesClicks ==
    Analyzed =>
        \A i \in Rows :
            NoConversionRow(i) =>
                \E d \in 1..Len(keyword_changes) :
                    /\ keyword_changes[d].keyword = df_search_terms[i].keyword
                    /\ keyword_changes[d].action = "pause"
                    /\ keyword_changes[d].reason.kind = "No conversions after clicks"
                    /\ keyword_changes[d].reason.a = df_search_terms[i].clicks

\* Two no-conversion rows of one keyword with different click counts (one of
\* them under 25, reached through a configured threshold) have been analyzed.
C4_Witness ==
    /\ Analyzed
    /\ \E i, j \in Rows :
        /\ NoConversionRow(i) /\ NoConversionRow(j)
        /\ df_search_terms[i].keyword = df_search_terms[j].keyword
        /\ df_search_terms[i].clicks < 25
        /\ df_search_terms[j].clicks >= 25
        /\ df_search_terms[i].acos # NaN

GoodRow(i) ==
    /\ df_search_terms[i].acos # NaN
    /\ df_search_terms[i].acos <= ConfiguredTarget
    /\ df_search_terms[i].conversion_rate # NaN
    /\ df_search_terms[i].conversion_rate >= ConfiguredMinCR
    /\ ~NoConversionRow(i)

AllRowsGood(k) ==
    \A i \in Rows : df_search_terms[i].keyword = k => GoodRow(i)

\* C5: a keyword whose rows all have a known ACOS <= target and a known
\* conversion rate >= the minimum, none of them with clicks >= threshold and
\* no orders, gets a 'keep' decision and no 'pause' decision.
C5_GoodKeywordKept ==
    Analyzed =>
        \A k \in Keywords :
            AllRowsGood(k) => HasDecision(k, "keep") /\ ~HasDecision(k, "pause")

\* A keyword with two good rows, one of them at both boundary values, has
\* been analyzed.
C5_Witness ==
    /\ Analyzed
    /\ \E k \in Keywords :
        /\ AllRowsGood(k)
        /\ Cardinality({i \in Rows : df_search_terms[i].keyword = k}) = 2
        /\ \E i \in Rows :
            /\ df_search_terms[i].keyword = k
            /\ df_search_terms[i].acos = ConfiguredTarget
            /\ df_search_terms[i].conversion_rate = ConfiguredMinCR
        /\ HasDecision(k, "keep")

\* C6: after adjust_bids no keyword with a 'pause' decision is in
\* bid_changes, and every bid change comes from a row with clicks > 10, also
\* when a keyword occurs in several rows.
C6_NoBidForPaused ==
    BidsAdjusted =>
        \A b \in 1..Len(bid_changes) :
            /\ ~HasDecision(bid_changes[b].keyword, "pause")
            /\ \E i \in Rows :
                /\ df_search_terms[i].keyword = bid_changes[b].keyword
                /\ original_data(df_search_terms[i]) = bid_changes[b].original_data
                /\ df_search_terms[i].clicks > 10

\* A paused keyword occurs in two rows, the second of which has enough clicks
\* and an ACOS far above target (it would get a bid change were its keyword
\* not paused), and the bid stage has run.
C6_Witness ==
    /\ BidsAdjusted
    /\ \E i, j \in Rows :
        /\ i < j
        /\ df_search_terms[i].keyword = df_search_terms[j].keyword
        /\ NoConversionRow(i)
        /\ df_search_terms[j].orders > 0
        /\ df_search_terms[j].clicks > 10
        /\ df_search_terms[j].acos > ConfiguredTarget
        /\ HasDecision(df_search_terms[i].keyword, "pause")
        /\ bid_changes = <<>>

\* Equality and order of two fractions with positive denominators.
FracEq(f, g) == f[1] * g[2] = g[1] * f[2]

FracGe(f, g) == f[1] * g[2] >= g[1] * f[2]

StepRow(st) == df_search_terms[st.row]

\* The factor table as the specification words it, first match first, on the
\* row's own figures: a missing ACOS is not the ACOS 0.
StatedFactor(row, t) ==
    IF row.sales = 0 /\ row.orders = 0 THEN <<7, 10>>
    ELSE IF row.acos = 0 /\ row.orders > 0 THEN <<11, 10>>
    ELSE IF row.acos # NaN /\ 2 * row.acos > 3 * t THEN <<6, 10>>
    ELSE IF row.acos # NaN /\ row.acos > t THEN <<t, row.acos>>
    ELSE IF row.acos # NaN /\ 2 * row.acos < t /\ row.orders > 0 THEN <<13, 10>>
    ELSE IF row.acos # NaN /\ row.acos < t /\ row.orders > 0 THEN <<11, 10>>
    ELSE <<10, 10>>

\* C7 as stated: for every eligible row new_bid = current_bid x factor, the
\* factor being 0.7 when there are no sales and no orders; 1.1 when
\* ACOS == 0 and orders > 0; 0.6 when ACOS > 1.5 x target; target/ACOS when
\* target < ACOS <= 1.5 x target; 1.3 when ACOS < 0.5 x target and
\* orders > 0; 1.1 when 0.5 x target <= ACOS < target and orders > 0;
\* otherwise 1.0.
C7_StatedFactorTable ==
    BidsAdjusted =>
        \A k \in 1..Len(bid_steps) :
            LET st == bid_steps[k]
                f  == StatedFactor(StepRow(st), ConfiguredTarget)
            IN  /\ FracEq(st.adjustment_factor, f)
                /\ FracEq(st.new_bid, <<st.current_cpc * f[1], f[2]>>)

\* C8 as stated: a BidChange is appended for an eligible row if and only if
\* |factor - 1| > 0.05; a proportional reduction in [0.95, 1) appends none.
C8_ChangeIffMaterial ==
    BidsAdjusted =>
        \A k \in 1..Len(bid_steps) :
            LET f == bid_steps[k].adjustment_factor
            IN  bid_steps[k].appended <=> (20 * Abs(f[1] - f[2]) > f[2])

\* C9: for a fixed target and fixed orders the factor is non-increasing in
\* ACOS over all ACOS > target, across the boundaries at target and at
\* 1.5 x target.
C9_FactorMonotone ==
    BidsAdjusted =>
        \A j, k \in 1..Len(bid_steps) :
            ( /\ StepRow(bid_steps[j]).orders = StepRow(bid_steps[k]).orders
              /\ StepRow(bid_steps[j]).acos > ConfiguredTarget
              /\ StepRow(bid_steps[j]).acos <= StepRow(bid_steps[k]).acos )
            => FracGe(bid_steps[j].adjustment_factor,
                      bid_steps[k].adjustment_factor)

\* The bid stage has handled two rows with the same orders, one at exactly
\* 1.5 x target and one beyond it.
C9_Witness ==
    /\ BidsAdjusted
    /\ \E j, k \in 1..Len(bid_steps) :
        /\ StepRow(bid_steps[j]).orders = StepRow(bid_steps[k]).orders
        /\ 2 * StepRow(bid_steps[j]).acos = 3 * ConfiguredTarget
        /\ 2 * StepRow(bid_steps[k]).acos > 3 * ConfiguredTarget
        /\ ~FracEq(bid_steps[j].adjustment_factor, bid_steps[k].adjustment_factor)

(***************************************************************************)
(* The keyword classifier and its two callers                              *)
(***************************************************************************)
\* Keyword rows of the campaign sheet: with and without sales; under 25
\* clicks without orders, from 25 clicks without and with orders; ACOS and
\* conversion rate (fractions) at their thresholds, beyond them and missing.
ClsRowDomain ==
    {[campaign_id |-> "c1", keyword |-> "k1", clicks |-> co[1], orders |-> co[2],
      sales |-> s, spend |-> 1000, acos |-> ac[1], conversion_rate |-> ac[2]] :
        s \in {0, 5000},
        co \in {<<15, 0>>, <<30, 0>>, <<30, 2>>},
        ac \in {<<20, 10>>, <<30, 10>>, <<20, 5>>, <<NaN, 10>>, <<20, NaN>>}}

ClsConfigDomain ==
    {Config(FALSE, FALSE, 2000, c, m) : c \in {None, 10}, m \in {None, 500}}

InitClassify ==
    \E rows \in SeqsUpTo(ClsRowDomain, MaxRows), cfg \in ClsConfigDomain :
        /\ kw_rows = rows
        /\ client_config = cfg
        /\ keyword_perf = <<>>
        /\ classify_args = <<>>
        /\ AfterPipelineWithoutRows
        /\ df_place = <<>>
        /\ placement_adjustments = <<>>
        /\ optimization_results = <<>>
        /\ export_sheet = <<>>
        /\ campaign_cols = required_cols
        /\ pc = "placements_done"

\* main(), "Optimierung starten", after the placement adjustments: they are
\* put into the results, classify_keywords runs with the configured target /
\* 100 and the default minimum conversion rate, and the results are stored.
ClassifyOnOptimize ==
    /\ pc \in {"placements_done", "placements_failed"}
    /\ classify_args' = [target_acos |-> Div100(Get(client_config, "target_acos",
                                                    DefaultTargetAcos)),
                         min_conversion_rate |-> ClassifierDefaultMinCR]
    /\ keyword_perf' = classify_keywords(kw_rows, classify_args'.target_acos,
                                         classify_args'.min_conversion_rate)
    /\ optimization_results' =
           [keyword_changes       |-> keyword_changes,
            bid_changes           |-> bid_changes,
            summary               |-> optimization_summary,
            debug_info            |-> debug_info,
            placement_adjustments |-> placement_adjustments,
            keyword_performance   |-> keyword_perf']
    /\ pc' = "optimized"
    /\ UNCHANGED <<campaign_cols, export_sheet, ai_call,
                   kw_rows, df_place, df_search_terms, client_config,
                   keyword_changes, bid_changes, optimization_summary,
                   current_step, debug_info, bid_steps, placement_adjustments>>

\* The dashboard's keyword section: when there are records, classify again
\* with the configured target / 100 and minimum conversion rate / 100.
ClassifyOnDashboard ==
    /\ pc = "optimized"
    /\ keyword_perf # <<>>
    /\ classify_args' = [target_acos |-> Div100(Get(client_config, "target_acos",
                                                    DefaultTargetAcos)),
                         min_conversion_rate |->
                             Div100(Get(client_config, "min_conversion_rate",
                                        DefaultMinConversionRate))]
    /\ keyword_perf' = classify_keywords(kw_rows, classify_args'.target_acos,
                                         classify_args'.min_conversion_rate)
    /\ pc' = "dashboard"
    /\ UNCHANGED <<campaign_cols, optimization_results, export_sheet, ai_call,
                   kw_rows, df_place, df_search_terms, client_config,
                   keyword_changes, bid_changes, optimization_summary,
                   current_step, debug_info, bid_steps, placement_adjustments>>

NextClassify == ClassifyOnOptimize \/ ClassifyOnDashboard

SpecClassify == InitClassify /\ [][NextClassify]_vars

Classified == pc \in {"optimized", "dashboard"}

KwRows == 1..Len(kw_rows)

\* C1: every keyword row with sales == 0 is classified 'schlecht', whatever
\* its clicks, orders, ACOS and conversion rate.
C1_NoSalesIsBad ==
    Classified =>
        \A i \in KwRows : kw_rows[i].sales = 0 => keyword_perf[i].status = "schlecht"

\* A row without sales whose other figures are all good (orders, ACOS at the
\* target, conversion rate at the minimum) has been classified.
C1_Witness ==
    /\ Classified
    /\ \E i \in KwRows :
        /\ kw_rows[i].sales = 0
        /\ kw_rows[i].orders > 0
        /\ kw_rows[i].acos # NaN /\ kw_rows[i].acos <= classify_args.target_acos
        /\ kw_rows[i].conversion_rate # NaN
        /\ kw_rows[i].conversion_rate >= classify_args.min_conversion_rate
        /\ keyword_perf[i].reason.kind = "Keine Verkaeufe"

\* C2 as stated: every keyword row with clicks >= the configured
\* minimum-clicks pause threshold (default 25) and orders == 0 is classified
\* 'schlecht', for every known or missing ACOS and conversion rate.
C2_ConfiguredThresholdIsBad ==
    Classified =>
        \A i \in KwRows :
            (kw_rows[i].clicks >= ConfiguredMinClicks /\ kw_rows[i].orders = 0)
            => keyword_perf[i].status = "schlecht"

\* C3 as stated: a row is 'gut' exactly when sales != 0, not (clicks >=
\* threshold and orders == 0), ACOS is known and <= target_acos and the
\* conversion rate is known and >= min_conversion_rate; every other row is
\* 'schlecht'.
C3_FiveRuleTable ==
    Classified =>
        \A i \in KwRows :
            /\ keyword_perf[i].status \in {"gut", "schlecht"}
            /\ keyword_perf[i].status = "gut" <=>
                /\ kw_rows[i].sales # 0
                /\ ~(kw_rows[i].clicks >= ConfiguredMinClicks /\ kw_rows[i].orders = 0)
                /\ kw_rows[i].acos # NaN
                /\ kw_rows[i].acos <= classify_args.target_acos
                /\ kw_rows[i].conversion_rate # NaN
                /\ kw_rows[i].conversion_rate >= classify_args.min_conversion_rate

(***************************************************************************)
(* placement_adjuster.compute_placement_adjustments                        *)
(***************************************************************************)
\* float('inf'): the RPC of a placement without clicks, and a quotient x / 0.0
\* with x > 0 in numpy arithmetic.
Inf == -3

\* The most placement rows a campaign sheet holds.
MaxPlacementRows == 3

placement_map ==
    {"platzierung produktseite", "platzierung rest der suche", "top-platzierung"}

\* sales / clicks as the fraction n/d; no fraction (inf) without clicks.
rpc(row) ==
    IF row.clicks # 0 THEN [defined |-> TRUE, n |-> row.sales, d |-> row.clicks]
    ELSE [defined |-> FALSE, n |-> 0, d |-> 1]

\* df_place['platzierung'].str.lower().str.strip()
placement_key(label) ==
    CASE label = "Platzierung Produktseite"   -> "platzierung produktseite"
      [] label = "Platzierung Rest der Suche" -> "platzierung rest der suche"
      [] label = "Top-Platzierung"            -> "top-platzierung"
      [] OTHER                                -> label

\* The rows the filter on the three main placements keeps.
MainPlacement(row) == placement_key(row.placement) \in placement_map

\* pandas groupby: the campaign ids (numbers) in ascending order.
RECURSIVE SortedIds(_)
SortedIds(ids) ==
    IF ids = {} THEN <<>>
    ELSE LET least == CHOOSE x \in ids : \A y \in ids : x <= y
         IN  <<least>> \o SortedIds(ids \ {least})

\* The indices of the rows of one campaign, in sheet order.
RECURSIVE GroupRows(_, _, _)
GroupRows(rows, campaign_id, i) ==
    IF i > Len(rows) THEN <<>>
    ELSE IF rows[i].campaign_id = campaign_id /\ MainPlacement(rows[i])
      THEN <<i>> \o GroupRows(rows, campaign_id, i + 1)
    ELSE GroupRows(rows, campaign_id, i + 1)

\* Faulty variant of valid_rpc: rows without clicks count as valid.
valid_rpc_all(rows, grp) == {grp[k] : k \in 1..Len(grp)}

\* valid_rpc: the rows of the group whose RPC is not inf.
valid_rpc(rows, grp) == {grp[k] : k \in {j \in 1..Len(grp) : rpc(rows[grp[j]]).defined}}

\* valid_rpc.min(): the RPC of the first row of the group no other valid row
\* undercuts.
min_rpc(rows, grp) ==
    LET valid == valid_rpc(rows, grp)
        least == {i \in valid : \A j \in valid :
                     rpc(rows[i]).n * rpc(rows[j]).d <= rpc(rows[j]).n * rpc(rows[i]).d}
        first == CHOOSE i \in least : \A j \in least : i <= j
    IN  rpc(rows[first])

\* round(x, 0) of the non-negative quotient a / b, ties to even.
RoundDiv(a, b) ==
    LET q == a \div b
        r == a % b
    IN  IF 2 * r < b THEN q
        ELSE IF 2 * r > b THEN q + 1
        ELSE IF q % 2 = 0 THEN q ELSE q + 1

\* Faulty variant of recommended_pct: a row without RPC is recommended 0.
recommended_pct_no_echo(row, m) ==
    LET r == rpc(row)
    IN  IF ~r.defined THEN 0
        ELSE IF m.n = 0 THEN (IF r.n = 0 THEN NaN ELSE Inf)
        ELSE LET num == r.n * m.d
                 den == r.d * m.n
             IN  IF num >= den THEN 10 * RoundDiv(1000 * (num - den), den) ELSE 0

\* recommended_pct of one row, given min_rpc = m, in numpy arithmetic: the
\* current percentage for a row without RPC; else ratio = rpc / min_rpc and
\* round(max(ratio - 1, 0) * 100, 1).  With min_rpc == 0.0 the ratio is nan for
\* rpc == 0.0 (and max(nan, 0) is nan) and inf otherwise.
recommended_pct(row, m) ==
    LET r == rpc(row)
    IN  IF ~r.defined THEN row.prozentsatz
        ELSE IF m.n = 0 THEN (IF r.n = 0 THEN NaN ELSE Inf)
        ELSE LET num == r.n * m.d
                 den == r.d * m.n
             IN  IF num >= den THEN 10 * RoundDiv(1000 * (num - den), den) ELSE 0

PlacementRecord(row, campaign_id, m, target_acos) ==
    [campaign_id            |-> campaign_id,
     placement              |-> row.placement,
     current_adjust_pct     |-> row.prozentsatz,
     recommended_adjust_pct |-> recommended_pct(row, m),
     rpc                    |-> IF rpc(row).defined THEN <<rpc(row).n, rpc(row).d>>
                                ELSE <<>>,
     min_rpc                |-> <<m.n, m.d>>,
     base_cpc               |-> <<m.n * target_acos, m.d * 100>>,
     clicks                 |-> row.clicks,
     spend                  |-> row.spend,
     sales                  |-> row.sales,
     is_total               |-> FALSE]

RECURSIVE SumOver(_, _, _)
SumOver(rows, grp, col) ==
    IF grp = <<>> THEN 0
    ELSE rows[Head(grp)][col] + SumOver(rows, Tail(grp), col)

\* The 'Gesamt' row of a campaign.
TotalRecord(rows, grp, campaign_id, m, target_acos) ==
    [campaign_id            |-> campaign_id,
     placement              |-> "Gesamt",
     current_adjust_pct     |-> None,
     recommended_adjust_pct |-> None,
     rpc                    |-> <<>>,
     min_rpc                |-> <<>>,
     base_cpc               |-> <<>>,
     clicks                 |-> SumOver(rows, grp, "clicks"),
     spend                  |-> SumOver(rows, grp, "spend"),
     sales                  |-> SumOver(rows, grp, "sales"),
     is_total               |-> TRUE]

\* The records of one campaign: none when no row has an RPC.
CampaignRecords(rows, campaign_id, target_acos) ==
    LET grp == GroupRows(rows, campaign_id, 1)
    IN  IF valid_rpc(rows, grp) = {} THEN <<>>
        ELSE LET m == min_rpc(rows, grp)
             IN  [k \in 1..Len(grp) |->
                     PlacementRecord(rows[grp[k]], campaign_id, m, target_acos)]
                 \o <<TotalRecord(rows, grp, campaign_id, m, target_acos)>>

\* A division rpc / min_rpc with min_rpc == 0.0 is reached: some campaign that
\* is not skipped has a placement with clicks and no sales.
DividesByZero(rows) ==
    \E i \in 1..Len(rows) :
        /\ MainPlacement(rows[i])
        /\ rows[i].clicks # 0
        /\ rows[i].sales = 0

RECURSIVE AllRecords(_, _, _)
AllRecords(rows, ids, target_acos) ==
    IF ids = <<>> THEN <<>>
    ELSE CampaignRecords(rows, Head(ids), target_acos)
         \o AllRecords(rows, Tail(ids), target_acos)

\* compute_placement_adjustments(df_campaign, target_acos): the recommendation
\* list, campaign by campaign.
compute_placement_adjustments(rows, target_acos) ==
    AllRecords(rows,
               SortedIds({rows[i].campaign_id :
                             i \in {j \in 1..Len(rows) : MainPlacement(rows[j])}}),
               target_acos)

(***************************************************************************)
(* The placement adjuster and its caller                                   *)
(***************************************************************************)
\* Placement rows of two campaigns: no clicks (no RPC, current adjustment
\* 50 %), clicks without sales (RPC 0) and RPCs of 1.00, 2.00, 3.00 and 4.00.
PlacementRowDomain ==
    {[campaign_id |-> cp[1], placement |-> cp[2], prozentsatz |-> m[3],
      clicks |-> m[1], spend |-> IF m[1] = 0 THEN 0 ELSE 500, sales |-> m[2]] :
        cp \in {<<101, "Platzierung Produktseite">>,
                <<101, "Platzierung Rest der Suche">>,
                <<101, "Top-Platzierung">>,
                <<102, "Top-Platzierung">>},
        m \in {<<0, 0, 5000>>, <<10, 0, 0>>, <<10, 1000, 0>>,
               <<10, 2000, 2500>>, <<10, 3000, 0>>, <<10, 4000, 0>>}}

PlacementConfigDomain == {Config(FALSE, FALSE, 2000, None, None)}

InitPlacement ==
    \E rows \in SeqsUpTo(PlacementRowDomain, MaxPlacementRows),
       cfg \in PlacementConfigDomain :
        /\ df_place = rows
        /\ client_config = cfg
        /\ placement_adjustments = <<>>
        /\ kw_rows = <<>>
        /\ keyword_perf = <<>>
        /\ classify_args = <<>>
        /\ AfterPipelineWithoutRows
        /\ optimization_results = <<>>
        /\ export_sheet = <<>>
        /\ campaign_cols = required_cols
        /\ pc = "optimized_rules"

\* target_acos as main() passes it: the configured percentage / 100 when it
\* is above 1, else the configured value itself.
PlacementTarget(cfg) ==
    LET t == Get(cfg, "target_acos", DefaultTargetAcos)
    IN  IF t > 100 THEN Div100(t) ELSE t

\* main(): compute_placement_adjustments returns its list.  Where it divides
\* by a min_rpc of 0.0 the operands may both be numpy floats (the quotient is
\* nan or inf, the list is returned) or Python floats (ZeroDivisionError).
ComputePlacements ==
    /\ pc = "optimized_rules"
    /\ required_cols \subseteq campaign_cols
    /\ placement_adjustments' =
           compute_placement_adjustments(df_place, PlacementTarget(client_config))
    /\ pc' = "placements_done"
    /\ UNCHANGED <<campaign_cols, optimization_results, export_sheet, ai_call,
                   kw_rows, df_place, df_search_terms, client_config,
                   keyword_changes, bid_changes, optimization_summary,
                   current_step, debug_info, keyword_perf, classify_args,
                   bid_steps>>

\* main(): compute_placement_adjustments raises (ValueError for a missing
\* required column, ZeroDivisionError on Python floats); the except clause
\* stores an empty list and warns.
ComputePlacementsFails ==
    /\ pc = "optimized_rules"
    /\ ~(required_cols \subseteq campaign_cols /\ ~DividesByZero(df_place))
    /\ placement_adjustments' = <<>>
    /\ pc' = "placements_failed"
    /\ UNCHANGED <<campaign_cols, optimization_results, export_sheet, ai_call,
                   kw_rows, df_place, df_search_terms, client_config,
                   keyword_changes, bid_changes, optimization_summary,
                   current_step, debug_info, keyword_perf, classify_args,
                   bid_steps>>

NextPlacement == ComputePlacements \/ ComputePlacementsFails

SpecPlacement == InitPlacement /\ [][NextPlacement]_vars

PlacementsComputed == pc \in {"placements_done", "placements_failed"}

PlaceRows == {i \in 1..Len(df_place) : MainPlacement(df_place[i])}

HasRpc(i) == df_place[i].clicks # 0

\* A campaign is skipped when none of its placements has an RPC.
NotSkipped(campaign_id) ==
    \E i \in PlaceRows : df_place[i].campaign_id = campaign_id /\ HasRpc(i)

\* Row i has the least defined RPC of its campaign.
IsMinRpc(i) ==
    /\ HasRpc(i)
    /\ \A j \in PlaceRows :
        (df_place[j].campaign_id = df_place[i].campaign_id /\ HasRpc(j))
        => df_place[i].sales * df_place[j].clicks
               <= df_place[j].sales * df_place[i].clicks

\* Some record of the result is the one of row i and recommends a percentage
\* that satisfies Ok.
Recommended(i, Ok(_)) ==
    \E r \in 1..Len(placement_adjustments) :
        LET rec == placement_adjustments[r]
        IN  /\ ~rec.is_total
            /\ rec.campaign_id = df_place[i].campaign_id
            /\ rec.placement = df_place[i].placement
            /\ rec.clicks = df_place[i].clicks
            /\ rec.sales = df_place[i].sales
            /\ rec.current_adjust_pct = df_place[i].prozentsatz
            /\ Ok(rec.recommended_adjust_pct)

IsZeroPct(x) == x = 0

IsNonNegativePct(x) == x = Inf \/ (x # NaN /\ x # None /\ x >= 0)

\* C10 as stated: in every campaign that is not skipped the placement with
\* the minimum defined RPC receives recommended_adjust_pct = 0 and every
\* other placement with a defined RPC receives a percentage >= 0, also when
\* the minimum defined RPC is 0.
C10_MinRpcGetsZero ==
    PlacementsComputed =>
        \A i \in PlaceRows :
            (NotSkipped(df_place[i].campaign_id) /\ HasRpc(i))
            => /\ IsMinRpc(i) => Recommended(i, IsZeroPct)
               /\ Recommended(i, IsNonNegativePct)

PlacementRecords ==
    {r \in 1..Len(placement_adjustments) : ~placement_adjustments[r].is_total}

\* Record r of the result is the one written for sheet row i.
RecordOf(r, i) ==
    /\ ~placement_adjustments[r].is_total
    /\ placement_adjustments[r].campaign_id = df_place[i].campaign_id
    /\ placement_adjustments[r].placement = df_place[i].placement
    /\ placement_adjustments[r].clicks = df_place[i].clicks
    /\ placement_adjustments[r].sales = df_place[i].sales
    /\ placement_adjustments[r].current_adjust_pct = df_place[i].prozentsatz

\* C11: a placement row with zero clicks never receives a computed
\* recommendation: every record of such a row recommends the row's current
\* percentage, and where the list was returned and the campaign not skipped
\* the row has such a record.
C11_ZeroClicksEchoed ==
    PlacementsComputed =>
        /\ \A r \in PlacementRecords :
            placement_adjustments[r].clicks = 0
            => placement_adjustments[r].recommended_adjust_pct
                   = placement_adjustments[r].current_adjust_pct
        /\ pc = "placements_done" =>
            \A i \in PlaceRows :
                (~HasRpc(i) /\ NotSkipped(df_place[i].campaign_id))
                => \E r \in PlacementRecords :
                       /\ RecordOf(r, i)
                       /\ placement_adjustments[r].recommended_adjust_pct
                              = df_place[i].prozentsatz

\* A zero-click row with a current adjustment of 50 % is echoed next to a
\* placement of the same campaign that got a computed 100 %.
C11_Witness ==
    /\ pc = "placements_done"
    /\ \E r, q \in PlacementRecords :
        /\ placement_adjustments[r].clicks = 0
        /\ placement_adjustments[r].current_adjust_pct = 5000
        /\ placement_adjustments[r].recommended_adjust_pct = 5000
        /\ placement_adjustments[q].campaign_id = placement_adjustments[r].campaign_id
        /\ placement_adjustments[q].recommended_adjust_pct = 10000

\* C12: a campaign in which no placement has a defined RPC contributes no
\* record to the output, neither a placement record nor a total row.
C12_SkippedCampaignSilent ==
    PlacementsComputed =>
        \A i \in PlaceRows :
            ~NotSkipped(df_place[i].campaign_id)
            => \A r \in 1..Len(placement_adjustments) :
                   placement_adjustments[r].campaign_id # df_place[i].campaign_id

\* One campaign has only zero-click placements while the other one produced
\* its records.
C12_Witness ==
    /\ pc = "placements_done"
    /\ placement_adjustments # <<>>
    /\ \E i \in PlaceRows : ~NotSkipped(df_place[i].campaign_id)

\* x is max(rpc_i / min_rpc - 1, 0) * 100 rounded to one decimal, for row i
\* and the least defined RPC of its campaign, the one of row k: a number of
\* whole tenths within half a tenth of the quotient.
IsStatedPct(x, i, k) ==
    LET num == df_place[i].sales * df_place[k].clicks
        den == df_place[i].clicks * df_place[k].sales
        over == IF num > den THEN num - den ELSE 0
    IN  /\ x >= 0
        /\ x % 10 = 0
        /\ den > 0
        /\ 2 * Abs((x \div 10) * den - 1000 * over) <= den

\* C13 as stated: every placement with a defined RPC is recommended
\* max(rpc / min_rpc - 1, 0) x 100 rounded to one decimal, min_rpc being the
\* least defined RPC of its campaign.
C13_StatedPercentage ==
    PlacementsComputed =>
        \A i \in PlaceRows :
            HasRpc(i) =>
                \E k \in PlaceRows, r \in PlacementRecords :
                    /\ df_place[k].campaign_id = df_place[i].campaign_id
                    /\ IsMinRpc(k)
                    /\ RecordOf(r, i)
                    /\ IsStatedPct(placement_adjustments[r].recommended_adjust_pct, i, k)

(***************************************************************************)
(* The summary stage and the impact estimates                              *)
(***************************************************************************)
\* The most search-term rows of a snapshot for the impact estimates.
MaxSummaryRows == 3

\* Search-term rows for the estimates, with the metrics the report loader
\* derives (ACOS = spend / sales x 100, conversion rate = orders / clicks x
\* 100) and the default configuration (target 20 %, 25 clicks, 10 %):
\* k1 and k2 with an ACOS of 40 % (bid cut by 40 %), k1 at 10 % (bid raised
\* by 10 %), at 25 % (cut by 20 %), without spend (ACOS 0) and without sales
\* (ACOS missing, cut by 30 %); k2 paused for 30 clicks without orders, paused
\* for an ACOS of 30 % at a conversion rate of 6.67 %, and kept with 5 clicks.
SummaryRow(keyword, clicks, orders, sales, spend) ==
    [keyword |-> keyword, clicks |-> clicks, orders |-> orders, sales |-> sales,
     spend |-> spend,
     acos |-> IF sales = 0 THEN NaN ELSE (spend * 10000) \div sales,
     conversion_rate |-> (orders * 10000) \div clicks,
     cpc |-> 100]

SummaryRowDomain ==
    {SummaryRow("k1", 15, 2, 10000, 4000),
     SummaryRow("k2", 15, 2, 10000, 4000),
     SummaryRow("k1", 15, 2, 10000, 1000),
     SummaryRow("k1", 15, 2, 10000, 2500),
     SummaryRow("k1", 15, 2, 10000, 0),
     SummaryRow("k1", 15, 0, 0, 300),
     SummaryRow("k2", 30, 0, 0, 500),
     SummaryRow("k2", 15, 1, 10000, 3000),
     SummaryRow("k2", 5, 1, 5000, 1000)}

SummaryConfigDomain == {Config(FALSE, FALSE, None, None, None)}

InitSummary ==
    \E rows \in SeqsUpTo(SummaryRowDomain, MaxSummaryRows),
       cfg \in SummaryConfigDomain :
        InitPipeline(rows, cfg)

SpecSummary == InitSummary /\ [][NextPipeline]_vars

Summarized == pc = "optimized_rules" /\ current_step = "complete"

Impact == optimization_summary.estimated_impact

PausedKeywords ==
    {keyword_changes[i].keyword :
        i \in {j \in 1..Len(keyword_changes) : keyword_changes[j].action = "pause"}}

\* The sum of a column over the rows with index in S, in hundredths.
RECURSIVE Total(_, _)
Total(col, S) ==
    IF S = {} THEN 0
    ELSE LET i == CHOOSE j \in S : TRUE
         IN  df_search_terms[i][col] + Total(col, S \ {i})

RowsOfKeyword(k) == {i \in Rows : df_search_terms[i].keyword = k}

RemainingRows == {i \in Rows : df_search_terms[i].keyword \notin PausedKeywords}

\* The spend delta of bid change b: its keyword's spend times its change
\* fraction.
SpendDelta(b) ==
    Frac(Total("spend", RowsOfKeyword(bid_changes[b].keyword))
             * bid_changes[b].change_percentage[1],
         10000 * bid_changes[b].change_percentage[2])

RECURSIVE SpendDeltas(_)
SpendDeltas(S) ==
    IF S = {} THEN <<0, 1>>
    ELSE LET b == CHOOSE c \in S : TRUE
         IN  FracAdd(SpendDelta(b), SpendDeltas(S \ {b}))

\* The spend after removing the paused keywords and adding the deltas.
RecomputedSpend ==
    FracAdd(Frac(Total("spend", RemainingRows), 100),
            SpendDeltas(1..Len(bid_changes)))

\* C15: estimate_acos_impact returns 0 when total sales is 0, the sales
\* remaining without the paused keywords is 0 or the recomputed spend is
\* negative, and otherwise the current blended ACOS minus the blended ACOS of
\* the recomputed spend over the remaining sales.
C15_AcosImpactGuarded ==
    Summarized =>
        LET total_sales == Total("sales", Rows)
            remaining   == Total("sales", RemainingRows)
            spend       == RecomputedSpend
        IN  IF total_sales = 0 \/ remaining = 0 \/ spend[1] < 0
              THEN Impact.projected_acos_reduction[1] = 0
            ELSE FracEq(Impact.projected_acos_reduction,
                        FracSub(Frac(Total("spend", Rows) * 100, total_sales),
                                Frac(spend[1] * 10000, spend[2] * remaining)))

\* A snapshot whose bid cuts make the recomputed spend negative: the estimate
\* is 0 although sales remain.
C15_Witness ==
    /\ Summarized
    /\ RecomputedSpend[1] < 0
    /\ Total("sales", RemainingRows) > 0
    /\ Impact.projected_acos_reduction[1] = 0

DecreasedKeywords ==
    {bid_changes[b].keyword :
        b \in {c \in 1..Len(bid_changes) : bid_changes[c].change_percentage[1] < 0}}

\* The change fraction of keyword k's bid decrease, as a positive fraction.
DecreaseOf(k) ==
    LET b == CHOOSE c \in 1..Len(bid_changes) :
                 /\ bid_changes[c].keyword = k
                 /\ bid_changes[c].change_percentage[1] < 0
    IN  Frac(-bid_changes[b].change_percentage[1],
             100 * bid_changes[b].change_percentage[2])

\* Every decrease of one keyword has the same change fraction.
DecreasesAgree ==
    \A b, c \in 1..Len(bid_changes) :
        (/\ bid_changes[b].keyword = bid_changes[c].keyword
         /\ bid_changes[b].change_percentage[1] < 0
         /\ bid_changes[c].change_percentage[1] < 0)
        => FracEq(bid_changes[b].change_percentage, bid_changes[c].change_percentage)

RECURSIVE DecreaseSavings(_)
DecreaseSavings(S) ==
    IF S = {} THEN <<0, 1>>
    ELSE LET k == CHOOSE x \in S : TRUE
         IN  FracAdd(FracMul(Frac(Total("spend", RowsOfKeyword(k)), 100), DecreaseOf(k)),
                     DecreaseSavings(S \ {k}))

\* C16 as stated: cost_saving is the spend of the rows of paused keywords
\* plus, for every keyword with a bid decrease, that keyword's spend times
\* the size of its change fraction, each keyword's spend counted once, also
\* when a keyword occurs in several rows.
C16_CostSavingOncePerKeyword ==
    (Summarized /\ DecreasesAgree) =>
        FracEq(Impact.cost_saving,
               FracAdd(Frac(Total("spend", Rows \ RemainingRows), 100),
                       DecreaseSavings(DecreasedKeywords)))

\* The average of the known row ACOS values in percent, 0 when no row has
\* one.
AverageAcos ==
    LET known == {i \in Rows : ~isna(df_search_terms[i].acos)}
    IN  IF known = {} THEN <<0, 1>>
        ELSE Frac(Total("acos", known), 100 * Cardinality(known))

\* C17: with a current average ACOS of 0 the efficiency improvement is 100
\* for a positive projected ACOS reduction and 0 otherwise; with a non-zero
\* average it is projected_acos_reduction / average x 100.
C17_EfficiencyImprovement ==
    Summarized =>
        IF AverageAcos[1] = 0
          THEN Impact.efficiency_improvement
                   = (IF Impact.projected_acos_reduction[1] > 0
                        THEN <<100, 1>> ELSE <<0, 1>>)
        ELSE FracEq(Impact.efficiency_improvement,
                    Frac(Impact.projected_acos_reduction[1] * AverageAcos[2] * 100,
                         Impact.projected_acos_reduction[2] * AverageAcos[1]))

\* The only known ACOS is 0 and pausing a keyword without sales lowers the
\* blended ACOS: the improvement is the fixed 100.
C17_Witness ==
    /\ Summarized
    /\ \E i \in Rows : ~isna(df_search_terms[i].acos)
    /\ AverageAcos[1] = 0
    /\ Impact.projected_acos_reduction[1] > 0
    /\ Impact.efficiency_improvement = <<100, 1>>

\* C18: the stages run in the order keyword analysis, bid adjustment, summary,
\* each once: every step moves current_step along start -> analyze_bids ->
\* generate_summary -> complete, adjust_bids runs only on the state keyword
\* analysis has left (its entry is the only one in debug_info), and the
\* summary only on the state bid adjustment has left.
C18_StagesInOrder ==
    [][/\ <<current_step, current_step'>> \in
              {<<"start", "analyze_bids">>, <<"analyze_bids", "generate_summary">>,
               <<"generate_summary", "complete">>}
       /\ current_step' = "analyze_bids" => debug_info = <<>>
       /\ current_step' = "generate_summary" =>
              /\ Len(debug_info) = 1
              /\ debug_info[1] = Reason("Processed keyword changes",
                                        Len(keyword_changes), 0)
              /\ keyword_changes' = keyword_changes
       /\ current_step' = "complete" =>
              /\ Len(debug_info) = 2
              /\ debug_info[2] = Reason("Processed bid changes", Len(bid_changes), 0)
              /\ keyword_changes' = keyword_changes
              /\ bid_changes' = bid_changes]_vars

\* A finished run with decisions and bid changes: one entry per stage, in order.
C18_Witness ==
    /\ current_step = "complete"
    /\ keyword_changes # <<>>
    /\ bid_changes # <<>>
    /\ Len(debug_info) = 3
    /\ debug_info[1].kind = "Processed keyword changes"
    /\ debug_info[2].kind = "Processed bid changes"
    /\ debug_info[3].kind = "Optimization summary generated"

\* The fixed message lists of a failed call.
FallbackMessages(call) ==
    IF call = "no_api_key"
      THEN <<"OpenAI API key not configured. AI recommendations unavailable.">>
    ELSE <<"An error occurred while generating AI recommendations.",
           "Please check the application logs for more details.",
           "Default advice: Review keywords with high ACOS and low conversions for potential pausing or bid reduction.",
           "Monitor keywords with recent bid changes closely for performance shifts.">>

\* C20: however the call of the recommendation generator goes, the summary
\* stage completes, leaves keyword decisions and bid changes as they were and
\* reports the impact estimates of the decisions; after a missing key or an
\* exception the recommendations are the fixed fallback list.
C20_AiFailureIsHarmless ==
    [][pc = "generate_summary" =>
          /\ current_step' = "complete"
          /\ keyword_changes' = keyword_changes
          /\ bid_changes' = bid_changes
          /\ optimization_summary'.estimated_impact =
                 [projected_acos_reduction |->
                      estimate_acos_impact(df_search_terms, keyword_changes, bid_changes),
                  cost_saving |->
                      estimate_cost_savings(df_search_terms, keyword_changes, bid_changes),
                  efficiency_improvement |->
                      estimate_efficiency_improvement(df_search_terms, keyword_changes,
                                                      bid_changes)]
          /\ ai_call' \in {"no_api_key", "exception"} =>
                 optimization_summary'.general_recommendations = FallbackMessages(ai_call')
      ]_vars

\* The call raised in a run with a paused keyword and a bid change: the run
\* is complete with the four fallback messages.
C20_Witness ==
    /\ Summarized
    /\ ai_call = "exception"
    /\ PausedKeywords # {}
    /\ bid_changes # <<>>
    /\ Len(optimization_summary.general_recommendations) = 4

(***************************************************************************)
(* export_utils.generate_export_excel and the whole run                    *)
(***************************************************************************)
\* Faulty variant of to_float: a missing value counts as 0.0.
to_float_none_as_zero(x) ==
    IF x = None THEN [ok |-> TRUE, val |-> 0] ELSE [ok |-> TRUE, val |-> x]

\* float(x): the number, or no number where the call raises TypeError.
to_float(x) == IF x = None THEN [ok |-> FALSE, val |-> None] ELSE [ok |-> TRUE, val |-> x]

\* The campaign sheet as parsed from the uploaded file, with the Operation
\* column inserted: the keyword rows with their bid cell and the placement
\* rows with their percentage cell.
OriginalSheet(kws, places) ==
    [keywords   |-> [i \in 1..Len(kws) |->
                        [keyword |-> kws[i].keyword, new_bid |-> None, operation |-> ""]],
     placements |-> [i \in 1..Len(places) |->
                        [campaign_id |-> places[i].campaign_id,
                         placement   |-> places[i].placement,
                         prozentsatz |-> places[i].prozentsatz,
                         operation   |-> ""]]]

\* One bid change (each carries a new_bid): the rows of entity 'Keyword' with
\* its keyword get the new bid and 'Update'.
ApplyBidChange(keywords, change) ==
    [i \in 1..Len(keywords) |->
        IF keywords[i].keyword = change.keyword
          THEN [keywords[i] EXCEPT !.new_bid = change.new_bid, !.operation = "Update"]
        ELSE keywords[i]]

RECURSIVE ApplyBidChanges(_, _)
ApplyBidChanges(keywords, changes) ==
    IF changes = <<>> THEN keywords
    ELSE ApplyBidChanges(ApplyBidChange(keywords, Head(changes)), Tail(changes))

\* One placement change: skipped when float(new_pct) raises; else the rows
\* with its campaign id and placement label get the percentage and 'Update'.
ApplyPlacementChange(placements, pl_change) ==
    LET new_pct_val == to_float(pl_change.recommended_adjust_pct)
    IN  IF ~new_pct_val.ok THEN placements
        ELSE [i \in 1..Len(placements) |->
                 IF /\ placements[i].campaign_id = pl_change.campaign_id
                    /\ placements[i].placement = pl_change.placement
                   THEN [placements[i] EXCEPT !.prozentsatz = new_pct_val.val,
                                              !.operation = "Update"]
                 ELSE placements[i]]

RECURSIVE ApplyPlacementChanges(_, _)
ApplyPlacementChanges(placements, changes) ==
    IF changes = <<>> THEN placements
    ELSE ApplyPlacementChanges(ApplyPlacementChange(placements, Head(changes)),
                               Tail(changes))

\* df_to_update as generate_export_excel writes it.
generate_export_excel(sheet, changes, placement_changes) ==
    [keywords   |-> ApplyBidChanges(sheet.keywords, changes),
     placements |-> ApplyPlacementChanges(sheet.placements, placement_changes)]

\* main(), "Export-Datei vorbereiten" on the dashboard page.
GenerateExport ==
    /\ pc \in {"optimized", "dashboard"}
    /\ export_sheet' =
           generate_export_excel(OriginalSheet(kw_rows, df_place),
                                 optimization_results.bid_changes,
                                 optimization_results.placement_adjustments)
    /\ pc' = "exported"
    /\ UNCHANGED <<campaign_cols, optimization_results, ai_call, kw_rows, df_place,
                   df_search_terms, client_config, keyword_changes, bid_changes,
                   optimization_summary, current_step, debug_info, keyword_perf,
                   classify_args, bid_steps, placement_adjustments>>

\* Sheet rows for the export: placements of two campaigns without clicks
\* (current adjustment 50 %), without sales and with RPCs of 1.00 and 2.00,
\* and a row of campaign 101 whose placement cell reads 'Gesamt'.
ExportRowDomain ==
    {[campaign_id |-> cp[1], placement |-> cp[2], prozentsatz |-> m[3],
      clicks |-> m[1], spend |-> IF m[1] = 0 THEN 0 ELSE 500, sales |-> m[2]] :
        cp \in {<<101, "Platzierung Produktseite">>, <<101, "Top-Platzierung">>,
                <<102, "Top-Platzierung">>},
        m \in {<<0, 0, 5000>>, <<10, 0, 0>>, <<10, 1000, 0>>, <<10, 2000, 2500>>}}
    \cup {[campaign_id |-> 101, placement |-> "Gesamt", prozentsatz |-> 2500,
           clicks |-> 10, spend |-> 500, sales |-> 2000]}

InitExport ==
    \E rows \in SeqsUpTo(ExportRowDomain, MaxPlacementRows),
       cfg \in PlacementConfigDomain :
        /\ df_place = rows
        /\ client_config = cfg
        /\ placement_adjustments = <<>>
        /\ kw_rows = <<>>
        /\ keyword_perf = <<>>
        /\ classify_args = <<>>
        /\ AfterPipelineWithoutRows
        /\ optimization_results = <<>>
        /\ export_sheet = <<>>
        /\ campaign_cols = required_cols
        /\ pc = "optimized_rules"

NextExport ==
    ComputePlacements \/ ComputePlacementsFails \/ ClassifyOnOptimize \/ GenerateExport

SpecExport == InitExport /\ [][NextExport]_vars

Exported == pc = "exported"

TotalRecords ==
    {r \in 1..Len(placement_adjustments) : placement_adjustments[r].is_total}

\* Record r addresses sheet row i: same campaign id and placement label.
Addresses(r, i) ==
    /\ placement_adjustments[r].campaign_id = df_place[i].campaign_id
    /\ placement_adjustments[r].placement = df_place[i].placement

\* C14: every total row ('Gesamt', is_total) has an empty
\* recommended_adjust_pct, and in the exported sheet every placement row
\* that was given a percentage or 'Update' got them from a record that is not
\* a total row; a row only total rows address is as it was uploaded.
C14_TotalRowNeverExported ==
    /\ \A r \in TotalRecords :
        /\ placement_adjustments[r].placement = "Gesamt"
        /\ placement_adjustments[r].recommended_adjust_pct = None
    /\ Exported =>
        \A i \in 1..Len(df_place) :
            \/ /\ export_sheet.placements[i].operation = ""
               /\ export_sheet.placements[i].prozentsatz = df_place[i].prozentsatz
            \/ \E r \in PlacementRecords :
                /\ Addresses(r, i)
                /\ export_sheet.placements[i].operation = "Update"
                /\ export_sheet.placements[i].prozentsatz
                       = placement_adjustments[r].recommended_adjust_pct

\* The uploaded sheet has a row labelled 'Gesamt' in a campaign that got a
\* total row; the export updated another row of the campaign and left that
\* one alone.
C14_Witness ==
    /\ Exported
    /\ \E i, j \in 1..Len(df_place), r \in TotalRecords :
        /\ Addresses(r, i)
        /\ export_sheet.placements[i].operation = ""
        /\ df_place[j].campaign_id = df_place[i].campaign_id
        /\ export_sheet.placements[j].operation = "Update"

\* Search-term rows of a whole run: a keyword paused for 30 clicks without
\* orders and one whose bid is cut for an ACOS of 40 %.
RunSearchDomain ==
    {SummaryRow("k2", 30, 0, 0, 500), SummaryRow("k1", 15, 2, 10000, 4000)}

\* Placement rows of a whole run: RPCs of 0, 1.00 and 2.00 in one campaign.
RunPlacementDomain ==
    {[campaign_id |-> 101, placement |-> pm[1], prozentsatz |-> 0,
      clicks |-> 10, spend |-> 500, sales |-> pm[2]] :
        pm \in {<<"Platzierung Produktseite", 0>>,
                <<"Platzierung Rest der Suche", 1000>>,
                <<"Top-Platzierung", 2000>>}}

\* "Optimierung starten": the uploaded row-sets and the initial state of the
\* workflow.  The search-term sheet may have no rows and the campaign sheet
\* no placement rows; it has no keyword rows.
InitRun ==
    \E rows \in SeqsUpTo(RunSearchDomain, MaxRows) \cup {<<>>},
       places \in SeqsUpTo(RunPlacementDomain, MaxPlacementRows) \cup {<<>>},
       cfg \in SummaryConfigDomain,
       cols \in {required_cols, required_cols \ {"prozentsatz"}} :
        /\ df_search_terms = rows
        /\ df_place = places
        /\ kw_rows = <<>>
        /\ client_config = cfg
        /\ keyword_changes = <<>>
        /\ bid_changes = <<>>
        /\ optimization_summary = <<>>
        /\ current_step = "start"
        /\ debug_info = <<>>
        /\ bid_steps = <<>>
        /\ keyword_perf = <<>>
        /\ classify_args = <<>>
        /\ placement_adjustments = <<>>
        /\ optimization_results = <<>>
        /\ export_sheet = <<>>
        /\ campaign_cols = cols
        /\ ai_call = "not_called"
        /\ pc = "analyze_keywords"

NextRun == NextPipeline \/ NextPlacement \/ ClassifyOnOptimize

SpecRun == InitRun /\ [][NextRun]_vars

\* C19 as stated: a result is stored only when every stage has completed;
\* after the failure of a stage no result is handed on.
C19_NoResultAfterFailure ==
    [][pc = "placements_failed" => optimization_results' = optimization_results]_vars

(***************************************************************************)
(* A second run on the same upload                                         *)
(***************************************************************************)
\* main(), "Optimierung starten" pressed again on the page that still holds
\* the upload: apply_optimization_rules builds a new initial_state from the
\* session's frames and configuration.
StartAgain ==
    /\ pc = "optimized"
    /\ keyword_changes' = <<>>
    /\ bid_changes' = <<>>
    /\ optimization_summary' = <<>>
    /\ current_step' = "start"
    /\ debug_info' = <<>>
    /\ bid_steps' = <<>>
    /\ ai_call' = "not_called"
    /\ pc' = "analyze_keywords"
    /\ UNCHANGED <<campaign_cols, optimization_results, export_sheet, kw_rows,
                   df_place, df_search_terms, client_config, keyword_perf,
                   classify_args, placement_adjustments>>

NextTwice == NextPipeline \/ ComputePlacements \/ ClassifyOnOptimize \/ StartAgain

SpecTwice == InitSummary /\ [][NextTwice]_vars

\* A run after the first one: the session holds the results of the run
\* before.
LaterRun == optimization_results # <<>> /\ pc # "optimized"

Permuted(rows, p) == [i \in 1..Len(rows) |-> rows[p[i]]]

\* The set of (keyword, action, reason) of a decision list.
DecisionSet(changes) ==
    {<<changes[c].keyword, changes[c].action, changes[c].reason>> :
        c \in 1..Len(changes)}

\* C22: for every permutation of the rows analyze_keywords yields the same
\* set of (keyword, action, reason) decisions.
C22_RowOrderIndependent ==
    Analyzed =>
        \A p \in Permutations(Rows) :
            DecisionSet(analyze_keywords(Permuted(df_search_terms, p), client_config))
                = DecisionSet(keyword_changes)

(***************************************************************************)
(* Missing metrics and the reasons of bid changes                          *)
(***************************************************************************)
\* C23: a missing ACOS is never treated as the value 0: an iteration of the
\* bid loop over a row without ACOS does not work with the ACOS 0.
C23_MissingAcosNotZero ==
    BidsAdjusted =>
        \A s \in 1..Len(bid_steps) :
            isna(StepRow(bid_steps[s]).acos) => bid_steps[s].current_acos # 0
\* The branch of the factor table a reason text names, as the factor that
\* branch yields for the iteration st; the text of the 1.0 branch names no
\* change at all.
ReasonNamesFactor(st) ==
    LET kind == st.change.reason.kind
        f    == st.adjustment_factor
    IN  /\ kind = "No conversions after clicks" => f = <<7, 10>>
        /\ kind = "ACOS is much higher than target" => f = <<6, 10>>
        /\ kind = "ACOS is higher than target"
            => f = <<st.target_acos, st.current_acos>>
        /\ kind = "ACOS is much lower than target" => f = <<13, 10>>
        /\ kind = "ACOS is below target" => f = <<11, 10>>
        /\ kind # "Current performance is acceptable"

\* C24: the reason of every emitted BidChange names the branch of the factor
\* table that produced its factor; a factor of 1.1 is never explained with
\* the text of the 1.3 branch.
C24_ReasonNamesBranch ==
    BidsAdjusted =>
        \A s \in 1..Len(bid_steps) :
            bid_steps[s].appended => ReasonNamesFactor(bid_steps[s])

(***************************************************************************)
(* The flags and the target ACOS                                           *)
(***************************************************************************)
\* Search-term rows that the targets 8, 19 and 20 decide differently: ACOS
\* 10 and 35 %, conversion rate under and at the minimum, rows for the bid
\* stage (15 clicks, orders) and rows without orders over the click
\* threshold.
FlagRowDomain ==
    {[keyword |-> k, clicks |-> co[1], orders |-> co[2],
      sales |-> IF co[2] = 0 THEN 0 ELSE 10000, spend |-> a,
      acos |-> a, conversion_rate |-> cr, cpc |-> 100] :
        k \in {"k1", "k2"}, co \in {<<15, 2>>, <<30, 0>>},
        a \in {1000, 3500}, cr \in {500, 1000}}

\* Every setting of the two flags, without a target and with the explicit
\* target 19.
FlagConfigDomain ==
    {Config(l, h, t, None, None) : l \in BOOLEAN, h \in BOOLEAN, t \in {None, 1900}}

InitFlags ==
    \E rows \in SeqsUpTo(FlagRowDomain, MaxRows), cfg \in FlagConfigDomain :
        InitPipeline(rows, cfg)

SpecFlags == InitFlags /\ [][NextPipeline]_vars

\* The configuration with the two flags set to l and h.
WithFlags(cfg, l, h) ==
    [cfg EXCEPT !.is_market_leader = l, !.has_large_inventory = h]

\* C25: with an explicit target the two flags change no keyword decision and
\* no bid change; without one the target is 8 when either flag is set and 20
\* otherwise; analyze_keywords and adjust_bids work with the same target.
C25_FlagsOnlyPickDefault ==
    /\ client_config.target_acos # None =>
        \A l \in BOOLEAN, h \in BOOLEAN :
            /\ Analyzed =>
                keyword_changes
                    = analyze_keywords(df_search_terms, WithFlags(client_config, l, h))
            /\ BidsAdjusted =>
                bid_changes
                    = AppendedChanges(adjust_bids(df_search_terms,
                                                  WithFlags(client_config, l, h),
                                                  keyword_changes))
    /\ client_config.target_acos = None =>
        analyze_target_acos(client_config)
            = IF client_config.is_market_leader \/ client_config.has_large_inventory
                THEN 800 ELSE 2000
    /\ analyze_target_acos(client_config) = adjust_target_acos(client_config)
    /\ BidsAdjusted =>
        \A s \in 1..Len(bid_steps) :
            bid_steps[s].target_acos = analyze_target_acos(client_config)

\* Both stages have run with an explicit target and a flag set, on rows that
\* the flag's default target would have decided differently.
C25_Witness ==
    /\ BidsAdjusted
    /\ client_config.target_acos # None
    /\ client_config.is_market_leader
    /\ bid_changes # <<>>
    /\ keyword_changes
        # analyze_keywords(df_search_terms, [client_config EXCEPT !.target_acos = None])
    /\ bid_changes
        # AppendedChanges(adjust_bids(df_search_terms,
                                      [client_config EXCEPT !.target_acos = None],
                                      keyword_changes))

(***************************************************************************)
(* What each stage writes                                                  *)
(***************************************************************************)
\* C26: every step of the pipeline leaves the input rows and the
\* configuration as they are; analyze_keywords writes keyword_changes only,
\* adjust_bids bid_changes only, generate_optimization_summary with its
\* estimators optimization_summary only (current_step and debug_info aside).
C26_StagesWriteOwnOutput ==
    [][ /\ df_search_terms' = df_search_terms
        /\ client_config' = client_config
        /\ pc = "analyze_keywords" =>
            /\ bid_changes' = bid_changes
            /\ optimization_summary' = optimization_summary
        /\ pc = "adjust_bids" =>
            /\ keyword_changes' = keyword_changes
            /\ optimization_summary' = optimization_summary
        /\ pc = "generate_summary" =>
            /\ keyword_changes' = keyword_changes
            /\ bid_changes' = bid_changes ]_vars

\* The three stages have run and each has written its output: decisions, two
\* different bid changes and a summary with a non-zero cost estimate.
C26_Witness ==
    /\ Summarized
    /\ keyword_changes # <<>>
    /\ Len(bid_changes) >= 2
    /\ bid_changes[1] # bid_changes[2]
    /\ optimization_summary # <<>>

(***************************************************************************)
(* The classifier against the optimizer                                    *)
(***************************************************************************)
\* A fraction of the classifier in the optimizer's unit, percent.
InPercent(x) == IF isna(x) THEN NaN ELSE x * 100

\* The keyword row i as a search-term row of the optimizer.
AsSearchTermRow(i) ==
    [kw_rows[i] EXCEPT !.acos = InPercent(@), !.conversion_rate = InPercent(@)]

\* The classifier's thresholds as a configuration of the optimizer.
AsOptimizerConfig ==
    Config(FALSE, FALSE, InPercent(classify_args.target_acos),
           ClassifierMinClicks, InPercent(classify_args.min_conversion_rate))

\* The actions analyze_keywords decides for the keyword row i alone.
OptimizerActions(i) ==
    LET changes == analyze_keywords(<<AsSearchTermRow(i)>>, AsOptimizerConfig)
    IN  {changes[c].action : c \in 1..Len(changes)}

\* C27: classify_keywords reports 'schlecht' for a keyword row exactly when
\* analyze_keywords, with the same thresholds in its own unit, decides
\* 'pause' for it, and 'gut' exactly when it decides 'keep'.
C27_ClassifierMatchesOptimizer ==
    Classified =>
        \A i \in KwRows :
            /\ keyword_perf[i].status = "schlecht" <=> OptimizerActions(i) = {"pause"}
            /\ keyword_perf[i].status = "gut" <=> OptimizerActions(i) = {"keep"}

(***************************************************************************)
(* Structural errors                                                       *)
(***************************************************************************)
\* C28: an entry point given an empty row-set or a sheet without a required
\* column aborts: analyze_keywords does not complete on a snapshot without
\* search-term rows, compute_placement_adjustments not on a sheet without
\* placement rows or without a required column, classify_keywords not on a
\* sheet without keyword rows.
C28_StructuralErrorAborts ==
    /\ Analyzed => df_search_terms # <<>>
    /\ pc = "placements_done" =>
        (df_place # <<>> /\ required_cols \subseteq campaign_cols)
    /\ pc = "optimized" => kw_rows # <<>>

(***************************************************************************)
(* One action per keyword                                                  *)
(***************************************************************************)
\* Row i has a known ACOS above the target and a conversion rate that is
\* missing or under the minimum.
HighAcosLowCrRow(i) ==
    /\ df_search_terms[i].acos # NaN
    /\ df_search_terms[i].acos > ConfiguredTarget
    /\ \/ df_search_terms[i].conversion_rate = NaN
       \/ df_search_terms[i].conversion_rate < ConfiguredMinCR

\* Some row of the keyword matches one of the two pause rules.
SomeRowPauses(k) ==
    \E i \in Rows :
        /\ df_search_terms[i].keyword = k
        /\ NoConversionRow(i) \/ HighAcosLowCrRow(i)

\* C29: after analyze_keywords every keyword of the snapshot has a decision,
\* none has both a 'pause' and a 'keep' decision; a keyword is paused when
\* one of its rows matches a pause rule and kept otherwise.
C29_OneActionPerKeyword ==
    Analyzed =>
        \A k \in Keywords :
            /\ HasDecision(k, "pause") \/ HasDecision(k, "keep")
            /\ ~(HasDecision(k, "pause") /\ HasDecision(k, "keep"))
            /\ HasDecision(k, "pause") <=> SomeRowPauses(k)

\* A keyword with two rows has been analyzed: the first row alone would be
\* kept, the second matches a pause rule.
C29_Witness ==
    /\ Analyzed
    /\ Len(df_search_terms) = 2
    /\ df_search_terms[1].keyword = df_search_terms[2].keyword
    /\ ~NoConversionRow(1) /\ ~HighAcosLowCrRow(1)
    /\ HighAcosLowCrRow(2)
    /\ HasDecision(df_search_terms[1].keyword, "pause")

(***************************************************************************)
(* The counts of the summary                                               *)
(***************************************************************************)
\* C30: in the summary keywords_to_pause + keywords_to_keep is the number of
\* keyword decisions, bids_to_increase + bids_to_decrease = bids_to_adjust is
\* the number of bid changes, none of which has the change_percentage 0, and
\* total_keywords_analyzed is the number of input rows.
C30_CountsConsistent ==
    Summarized =>
        /\ optimization_summary.keywords_to_pause
             + optimization_summary.keywords_to_keep = Len(keyword_changes)
        /\ optimization_summary.bids_to_increase
             + optimization_summary.bids_to_decrease
             = optimization_summary.bids_to_adjust
        /\ optimization_summary.bids_to_adjust = Len(bid_changes)
        /\ \A b \in 1..Len(bid_changes) : bid_changes[b].change_percentage[1] # 0
        /\ optimization_summary.total_keywords_analyzed = Len(df_search_terms)

\* A summary of a run with a kept keyword, a bid change and an iteration of
\* the bid loop whose factor is 1.0 and appended none.
C30_Witness ==
    /\ Summarized
    /\ optimization_summary.keywords_to_keep > 0
    /\ optimization_summary.bids_to_adjust > 0
    /\ \E s \in 1..Len(bid_steps) :
        /\ ~bid_steps[s].appended
        /\ bid_steps[s].adjustment_factor = <<10, 10>>

====
